---- MODULE Spec2Model ----
(***************************************************************************)
(* A model of ofetch's request execution pipeline: createFetch's           *)
(* $fetchRaw and onError (src/src/index.ts), the helpers of src/utils.ts   *)
(* (src/unnamed/part_001) and createFetchError of src/error.ts             *)
(* (src/unnamed/part_000).                                                 *)
(*                                                                         *)
(* One logical call is followed from the caller's invocation to the        *)
(* settlement of its promise.  The recursion $fetchRaw -> onError ->       *)
(* $fetchRaw is kept as a stack of suspended invocations: the innermost    *)
(* invocation owns ctx, pc and abortTimeout, every suspended one keeps     *)
(* the local abortTimeout its finally block still has to clear.            *)
(*                                                                         *)
(* JavaScript strings that the code converts or inspects (the method, the  *)
(* content-type) are sequences of one-character strings; an absent method  *)
(* or content-type is the empty sequence, which the code treats exactly    *)
(* like undefined (both are falsy, and isPayloadMethod's default "GET" and *)
(* "".toUpperCase() are both no payload method).                           *)
(***************************************************************************)
EXTENDS Integers, Sequences, FiniteSets, TLC

(***************************************************************************)
(* Bounds of the model.                                                    *)
(***************************************************************************)
\* the largest explicit numeric retry option a caller passes
MaxRetry == 2
\* the longest list of callbacks a hook slot holds
MaxHooks == 2

\* no more than MaxAttempts invocations of $fetchRaw can be chained
MaxAttempts == MaxRetry + 2

\* the longest retry delay a caller passes, in time units
MaxDelay == 2
\* the longest time the transport takes to fail or to answer, in time units
MaxLatency == 2

(***************************************************************************)
(* Characters and strings.                                                 *)
(***************************************************************************)
UpperLetters ==
  <<"A","B","C","D","E","F","G","H","I","J","K","L","M",
    "N","O","P","Q","R","S","T","U","V","W","X","Y","Z">>

LowerLetters ==
  <<"a","b","c","d","e","f","g","h","i","j","k","l","m",
    "n","o","p","q","r","s","t","u","v","w","x","y","z">>

Digits == {"0","1","2","3","4","5","6","7","8","9"}

Range(s) == { s[i] : i \in DOMAIN s }

\* String.prototype.toUpperCase, one character
ToUpperChar(c) ==
  IF \E i \in DOMAIN LowerLetters : LowerLetters[i] = c
    THEN UpperLetters[CHOOSE i \in DOMAIN LowerLetters : LowerLetters[i] = c]
    ELSE c

\* the case folding of a /.../i regular expression, one character
ToLowerChar(c) ==
  IF \E i \in DOMAIN UpperLetters : UpperLetters[i] = c
    THEN LowerLetters[CHOOSE i \in DOMAIN UpperLetters : UpperLetters[i] = c]
    ELSE c

toUpperCase(s) == [ i \in DOMAIN s |-> ToUpperChar(s[i]) ]

toLowerCase(s) == [ i \in DOMAIN s |-> ToLowerChar(s[i]) ]

startsWith(s, p) ==
  /\ Len(p) <= Len(s)
  /\ \A i \in 1..Len(p) : s[i] = p[i]

\* the strings the model's inputs are written with
GET == <<"G","E","T">>
HEAD == <<"H","E","A","D">>
POST == <<"P","O","S","T">>
PUT == <<"P","U","T">>
PATCH == <<"P","A","T","C","H">>
DELETE == <<"D","E","L","E","T","E">>

(***************************************************************************)
(* src/utils.ts: pure helpers.                                             *)
(***************************************************************************)
\* a faulty variant: DELETE is missing from the set
payloadMethodsWithoutDELETE == { PATCH, POST, PUT }

\* const payloadMethods = new Set(["PATCH", "POST", "PUT", "DELETE"])
payloadMethods == { PATCH, POST, PUT, DELETE }

\* isPayloadMethod(method = "GET"): an absent method counts as GET
isPayloadMethod(method) ==
  toUpperCase(IF method = <<>> THEN GET ELSE method) \in payloadMethods

\* const textTypes = new Set([...])
textTypes ==
  { <<"i","m","a","g","e","/","s","v","g">>,
    <<"a","p","p","l","i","c","a","t","i","o","n","/","x","m","l">>,
    <<"a","p","p","l","i","c","a","t","i","o","n","/","x","h","t","m","l">>,
    <<"a","p","p","l","i","c","a","t","i","o","n","/","h","t","m","l">> }

\* the character class [\w!#$%&*.^`~-] of JSON_RE, under the i flag (a string
\* cannot hold the grave accent, which is written "backtick")
JsonTokenChar(c) ==
  \/ ToLowerChar(c) \in Range(LowerLetters)
  \/ c \in Digits
  \/ c \in {"_","!","#","$","%","&","*",".","^","backtick","~","-"}

\* a faulty variant: the parameters stay in the string
BeforeSemicolonKeepsAll(s) == s

\* _contentType.split(";").shift(): the text before the first ";"
BeforeSemicolon(s) ==
  IF \E i \in DOMAIN s : s[i] = ";"
    THEN SubSeq(s, 1, (CHOOSE i \in DOMAIN s :
                         /\ s[i] = ";"
                         /\ \A j \in 1..(i-1) : s[j] # ";") - 1)
    ELSE s

\* JSON_RE = /^application\/(?:[\w!#$%&*.^`~-]*\+)?json(;.+)?$/i applied to a
\* string; (;.+)? is the optional parameter part
JSON_RE_test(s) ==
  LET l == toLowerCase(s)
      prefix == <<"a","p","p","l","i","c","a","t","i","o","n","/">>
      json == <<"j","s","o","n">>
      \* the part in front of the parameters
      essence == BeforeSemicolon(l)
      params == SubSeq(l, Len(essence) + 1, Len(l))
      rest == SubSeq(essence, Len(prefix) + 1, Len(essence))
      vendor == SubSeq(rest, 1, Len(rest) - Len(json))
  IN  /\ startsWith(essence, prefix)
      /\ Len(rest) >= Len(json)
      /\ SubSeq(rest, Len(rest) - Len(json) + 1, Len(rest)) = json
      /\ \/ vendor = <<>>
         \/ /\ vendor[Len(vendor)] = "+"
            /\ \A i \in 1..(Len(vendor) - 1) : JsonTokenChar(vendor[i])
      \* (;.+)? : nothing, or ";" and at least one more character
      /\ params = <<>> \/ Len(params) >= 2

\* detectResponseType(_contentType = "")
detectResponseType(_contentType) ==
  IF _contentType = <<>> THEN "json"
  ELSE LET contentType == BeforeSemicolon(_contentType)
       IN  IF JSON_RE_test(contentType) THEN "json"
           ELSE IF \/ contentType \in textTypes
                   \/ startsWith(contentType, <<"t","e","x","t","/">>)
                  THEN "text"
                  ELSE "blob"

(***************************************************************************)
(* src/fetch.ts: the two status sets.                                      *)
(***************************************************************************)
\* const retryStatusCodes = new Set([408, 409, 425, 429, 500, 502, 503, 504])
retryStatusCodes == { 408, 409, 425, 429, 500, 502, 503, 504 }

\* a faulty variant: 205 is missing from the set
nullBodyResponsesWithout205 == { 101, 204, 304 }

\* const nullBodyResponses = new Set([101, 204, 205, 304])
nullBodyResponses == { 101, 204, 205, 304 }

(***************************************************************************)
(* Errors.  An error is a record; "cause" holds no or one error.           *)
(***************************************************************************)
\* the reason the timeout callback of $fetchRaw aborts its controller with
TimeoutError ==
  [ name |-> "TimeoutError",
    code |-> 23,
    message |-> << "[TimeoutError]: ", "The operation was aborted due to timeout" >>,
    cause |-> <<>> ]

\* the reason of an AbortController aborted by the caller without a reason of
\* its own (the platform's DOMException)
AbortError ==
  [ name |-> "AbortError",
    code |-> 20,
    message |-> << "This operation was aborted" >>,
    cause |-> <<>> ]

\* what the transport throws when the network fails
NetworkError ==
  [ name |-> "TypeError", code |-> 0, message |-> << "fetch failed" >>, cause |-> <<>> ]

\* what a transport throws that gives its error no message
EmptyError ==
  [ name |-> "Error", code |-> 0, message |-> <<>>, cause |-> <<>> ]

TransportErrors == { NetworkError, EmptyError }

\* what a hook of the caller throws
HookError ==
  [ name |-> "Error", code |-> 0, message |-> << "error in hook" >>, cause |-> <<>> ]

\* what reading the body (response.text(), .blob(), ...) throws
BodyError ==
  [ name |-> "TypeError", code |-> 0, message |-> << "terminated" >>, cause |-> <<>> ]

(***************************************************************************)
(* Cancellation tokens.  The caller's token, and the token of the          *)
(* AbortController that the k-th invocation of $fetchRaw creates.          *)
(***************************************************************************)
NoSignal == [ src |-> "undefined", id |-> 0 ]

CallerSignal == [ src |-> "caller", id |-> 0 ]

InternalSignal(k) == [ src |-> "internal", id |-> k ]

Signals == { CallerSignal } \cup { InternalSignal(k) : k \in 1..MaxAttempts }

(***************************************************************************)
(* Maps, header containers, URLs, request descriptors and bodies.  A map   *)
(* (a query object, a header set) is a function on its keys; an option     *)
(* that is a map holds no map (the option is undefined) or one.            *)
(***************************************************************************)
EmptyMap == << >>

\* { ...a, ...b }, and headers.set(key, value) for every entry of b
Overlay(a, b) ==
  [ k \in (DOMAIN a) \cup (DOMAIN b) |-> IF k \in DOMAIN b THEN b[k] ELSE a[k] ]

\* { ...o } of an option object: nothing when it is undefined
Spread(o) == IF o = <<>> THEN EmptyMap ELSE o[1]

\* the header names the model's inputs are written with
content_type == <<"c","o","n","t","e","n","t","-","t","y","p","e">>
Content_Type == <<"C","o","n","t","e","n","t","-","T","y","p","e">>
accept == <<"a","c","c","e","p","t">>
x_a == <<"x","-","a">>
X_A == <<"X","-","A">>
x_b == <<"x","-","b">>
x_c == <<"x","-","c">>
foo == <<"f","o","o">>

\* new Headers(init): the field names are folded to lower case (the inputs
\* hold no two names that differ in case only)
Headers(init) ==
  [ n \in { toLowerCase(k) : k \in DOMAIN init } |->
      init[CHOOSE k \in DOMAIN init : toLowerCase(k) = n] ]

\* headers.has(name), headers.get(name), headers.set(name, value)
has(headers, name) == toLowerCase(name) \in DOMAIN headers

set(headers, name, value) ==
  Overlay(headers, [ n \in { toLowerCase(name) } |-> value ])

\* a URL string: no or one base in front of the path, and the pairs of its
\* query part
Url(base, path, query) == [ base |-> base, path |-> path, query |-> query ]

\* ufo's withBase(input, base): a URL that has the base already is left alone
withBase(input, base) ==
  IF input.base # <<>> THEN input ELSE [ input EXCEPT !.base = << base >> ]

\* ufo's withQuery(input, query): the query object's pairs are set in the
\* URL's query part
withQuery(input, query) == [ input EXCEPT !.query = Overlay(@, query) ]

\* a request descriptor is a URL string ...
StringRequest(url) ==
  [ kind |-> "string", url |-> url, method |-> <<>>, headers |-> <<>> ]

\* ... or a pre-built Request, which carries a method (GET when none was
\* given) and a header container of its own
RequestObject(url, method, headers) ==
  [ kind |-> "Request", url |-> url,
    method |-> IF method = <<>> THEN GET ELSE toUpperCase(method),
    headers |-> << Headers(headers) >> ]

\* a body value, by what the pipeline inspects of it; json: the value is the
\* JSON text of the value named by id
BodyValue(typeof, kind, id) ==
  [ typeof |-> typeof, kind |-> kind, id |-> id, json |-> FALSE ]

PlainObject == BodyValue("object", "Object", "{num:42}")
ArrayBody == BodyValue("object", "Array", "[{num:42},{num:43}]")
DateBody == BodyValue("object", "Date", "2020-01-01")
StringBody == BodyValue("string", "String", "Hallo von Pascal")
EmptyStringBody == BodyValue("string", "String", "")
NumberBody == BodyValue("number", "Number", "42")
BufferBody == BodyValue("object", "Buffer", "Hallo von Pascal")
FormDataBody == BodyValue("object", "FormData", "foo=bar")
URLSearchParamsBody == BodyValue("object", "URLSearchParams", "foo=bar")
ReadableStreamBody == BodyValue("object", "ReadableStream", "Hallo von Pascal")
ReadableBody == BodyValue("object", "Readable", "Hallo von Pascal")

\* the values on which !value holds: the empty string (and 0, NaN, null)
falsy(value) == value.typeof = "string" /\ value.id = "" /\ ~ value.json

\* the kinds whose values have a buffer property (Buffer, typed arrays)
hasBuffer(value) == value.kind \in { "Buffer", "Uint8Array" }

\* the kinds whose values have a toJSON method
hasToJSON(value) == value.kind \in { "Date", "Buffer" }

\* a faulty variant: the buffer property is not looked at
isJSONSerializableNoBufferTest(value) ==
  IF value.typeof \in { "string", "number", "boolean" } THEN TRUE
  ELSE IF value.typeof # "object" THEN FALSE
  ELSE IF value.kind = "Array" THEN TRUE
  ELSE value.kind = "Object" \/ hasToJSON(value)

\* isJSONSerializable(value), of a value that is not undefined
isJSONSerializable(value) ==
  IF value.typeof \in { "string", "number", "boolean" } THEN TRUE
  ELSE IF value.typeof # "object" THEN FALSE
  ELSE IF value.kind = "Array" THEN TRUE
  ELSE IF hasBuffer(value) THEN FALSE
  ELSE value.kind = "Object" \/ hasToJSON(value)

\* JSON.stringify(value): a string, the JSON text of the value
JSON_stringify(value) ==
  [ typeof |-> "string", kind |-> "String", id |-> value.id, json |-> TRUE ]

\* "pipeTo" in body && typeof body.pipeTo === "function", or
\* typeof body.pipe === "function"
isStream(value) == value.kind \in { "ReadableStream", "Readable" }

(***************************************************************************)
(* Options.  A hook slot is unset, a single callback or a list of          *)
(* callbacks.                                                              *)
(***************************************************************************)
NoHook == [ isArray |-> FALSE, n |-> 0 ]

SingleHook == [ isArray |-> FALSE, n |-> 1 ]

HookList(k) == [ isArray |-> TRUE, n |-> k ]

HookSlots == { "onRequest", "onRequestError", "onResponse", "onResponseError" }

RetryUndefined == [ t |-> "undefined", n |-> 0 ]

RetryFalse == [ t |-> "false", n |-> 0 ]

RetryNumber(k) == [ t |-> "number", n |-> k ]

NoRetryStatusCodes == [ isArray |-> FALSE, codes |-> {} ]

RetryStatusCodeList(codes) == [ isArray |-> TRUE, codes |-> codes ]

\* the retryDelay option: a number of milliseconds (0 when it is absent), or
\* a function of the failed context, here by the number it returns
DelayNumber(n) == [ isFunction |-> FALSE, n |-> n, returns |-> 0 ]

DelayFunction(n) == [ isFunction |-> TRUE, n |-> 0, returns |-> n ]

\* the option set {}: every option absent
NoOptions ==
  [ method |-> <<>>,
    retry |-> RetryUndefined,
    retryStatusCodes |-> NoRetryStatusCodes,
    retryDelay |-> DelayNumber(0),
    timeout |-> 0,
    signal |-> NoSignal,
    ignoreResponseError |-> FALSE,
    onRequest |-> NoHook,
    onRequestError |-> NoHook,
    onResponse |-> NoHook,
    onResponseError |-> NoHook,
    responseType |-> "undefined",
    parseResponse |-> FALSE,
    baseURL |-> <<>>,
    query |-> <<>>,
    params |-> <<>>,
    headers |-> <<>>,
    body |-> <<>>,
    duplex |-> "undefined" ]

\* { ...a, ...b } of two option sets: an option that b holds replaces a's
SpreadOptions(a, b) ==
  [ f \in DOMAIN NoOptions |-> IF b[f] # NoOptions[f] THEN b[f] ELSE a[f] ]

\* mergeHeaders(input, defaults, Headers)
mergeHeaders(in, dflt) ==
  IF dflt = <<>>
    THEN Headers(Spread(in))
    ELSE Overlay(Headers(dflt[1]), Headers(Spread(in)))

\* a faulty variant: the defaults are spread last
mergeQueryDefaultsLast(in, dflt) ==
  IF dflt.query # <<>> \/ dflt.params # <<>> \/ in.params # <<>> \/ in.query # <<>>
    THEN << Overlay(Overlay(Overlay(Spread(in.params), Spread(in.query)),
                            Spread(dflt.params)),
                    Spread(dflt.query)) >>
    ELSE <<>>

\* let query: { ...defaults?.params, ...defaults?.query, ...input?.params,
\* ...input?.query } when one of the four is given, undefined otherwise
mergeQuery(in, dflt) ==
  IF dflt.query # <<>> \/ dflt.params # <<>> \/ in.params # <<>> \/ in.query # <<>>
    THEN << Overlay(Overlay(Overlay(Spread(dflt.params), Spread(dflt.query)),
                            Spread(in.params)),
                    Spread(in.query)) >>
    ELSE <<>>

\* resolveFetchOptions(request, input, defaults, Headers)
resolveFetchOptions(request, in, dflt) ==
  LET headers ==
        mergeHeaders(IF in.headers # <<>> THEN in.headers ELSE request.headers,
                     dflt.headers)
      query == mergeQuery(in, dflt)
  IN  [ SpreadOptions(dflt, in) EXCEPT
          !.query = query, !.params = query, !.headers = << headers >> ]

\* $fetch.create(defaultOptions): the defaults of the new instance,
\* { ...globalOptions.defaults, ...defaultOptions }
createDefaults(dflt, defaultOptions) == SpreadOptions(dflt, defaultOptions)

\* a faulty variant: only the first callback of a list is invoked
hookCountFirstOnly(hooks) == IF hooks.n > 0 THEN 1 ELSE 0

\* callHooks: the callbacks it invokes, a list in order, a single callback once
hookCount(hooks) ==
  IF hooks.isArray THEN hooks.n
  ELSE IF hooks.n > 0 THEN 1 ELSE 0

(***************************************************************************)
(* The calls and the transport's answers the model is checked with.        *)
(***************************************************************************)
Methods == { <<>>, GET, <<"p","o","s","t">>, DELETE, <<"h","e","a","d">> }

Retries == { RetryUndefined, RetryFalse } \cup { RetryNumber(k) : k \in 0..MaxRetry }

RetryStatusCodeOptions ==
  { NoRetryStatusCodes, RetryStatusCodeList({}), RetryStatusCodeList({403, 408}) }

HookOptions == { NoHook, SingleHook } \cup { HookList(k) : k \in 0..MaxHooks }

ResponseTypes == { "undefined", "json", "text", "blob", "arrayBuffer", "stream" }

\* calls that differ in what decides a retry
RetryInputs ==
  { [ NoOptions EXCEPT !.method = m, !.retry = r, !.retryStatusCodes = c,
                       !.timeout = t, !.signal = s ] :
      m \in { <<>>, <<"p","o","s","t">>, DELETE }, r \in Retries,
      c \in RetryStatusCodeOptions, t \in {0, 1}, s \in { NoSignal, CallerSignal } }

\* calls that wait before they retry
DelayInputs ==
  { [ NoOptions EXCEPT !.retry = r, !.retryDelay = d, !.timeout = t ] :
      r \in { RetryUndefined, RetryNumber(MaxRetry) },
      d \in { DelayNumber(1), DelayFunction(1), DelayFunction(0) }, t \in {0, 1} }

\* calls that differ in their hooks: every slot unset or holding h
HookInputs ==
  { [ NoOptions EXCEPT !.onRequest = IF "onRequest" \in on THEN h ELSE NoHook,
                       !.onRequestError = IF "onRequestError" \in on THEN h ELSE NoHook,
                       !.onResponse = IF "onResponse" \in on THEN h ELSE NoHook,
                       !.onResponseError = IF "onResponseError" \in on THEN h ELSE NoHook,
                       !.retry = r ] :
      h \in HookOptions, on \in SUBSET HookSlots,
      r \in { RetryUndefined, RetryNumber(MaxRetry) } }

\* calls that differ in how the response is decoded
DecodeInputs ==
  { [ NoOptions EXCEPT !.method = m, !.responseType = rt, !.parseResponse = p,
                       !.ignoreResponseError = i ] :
      m \in { <<>>, GET, <<"h","e","a","d">> }, rt \in ResponseTypes,
      p \in BOOLEAN, i \in BOOLEAN }

\* calls that ignore error statuses and have hooks to run
IgnoreInputs ==
  { [ NoOptions EXCEPT !.ignoreResponseError = TRUE, !.retry = r,
                       !.onResponse = SingleHook, !.onResponseError = h ] :
      r \in { RetryUndefined, RetryNumber(MaxRetry) },
      h \in { SingleHook, HookList(MaxHooks) } }

\* calls with a timeout that differ in their request hooks and retry delay
TimeoutInputs ==
  { [ NoOptions EXCEPT !.timeout = 1, !.retry = r, !.retryDelay = d,
                       !.onRequest = h, !.onRequestError = h ] :
      r \in Retries, d \in { DelayNumber(0), DelayNumber(1) },
      h \in { NoHook, SingleHook } }

\* calls that hold callbacks in every slot and wait before they retry
SequenceInputs ==
  { [ NoOptions EXCEPT !.onRequest = SingleHook,
                       !.onRequestError = HookList(MaxHooks),
                       !.onResponse = HookList(MaxHooks),
                       !.onResponseError = HookList(MaxHooks),
                       !.retry = RetryNumber(1), !.retryDelay = d ] :
      d \in { DelayNumber(1), DelayFunction(1) } }

Inputs ==
  RetryInputs \cup DelayInputs \cup HookInputs \cup DecodeInputs
    \cup IgnoreInputs \cup TimeoutInputs \cup SequenceInputs

\* the URL the calls of the model go to
TheUrl == Url(<< "http://localhost:3000" >>, "/ok", EmptyMap)

\* the calls of the families above: made on the instance without defaults,
\* with a URL string
PlainCalls == { << <<>>, StringRequest(TheUrl), i >> : i \in Inputs }

\* the body values a caller passes
Bodies ==
  { PlainObject, ArrayBody, DateBody, StringBody, EmptyStringBody, NumberBody,
    BufferBody, FormDataBody, URLSearchParamsBody, ReadableStreamBody,
    ReadableBody }

\* header sets as a caller writes them
TextPlain == Content_Type :> "text/plain"
TextPlainLower == content_type :> "text/plain"
HeadersA == (x_a :> "0") @@ (x_b :> "2")
HeadersB == (Content_Type :> "text/plain") @@ (X_A :> "1") @@ (x_c :> "3")
HeadersC == x_c :> "3"
HeadersFoo == (foo :> "1") @@ (accept :> "text/html")

\* calls that differ in the body they send
BodyInputs ==
  { [ NoOptions EXCEPT !.method = m, !.body = << b >>, !.headers = h,
                       !.retry = RetryNumber(0) ] :
      m \in { <<>>, <<"p","o","s","t">> }, b \in Bodies,
      h \in { <<>>, << TextPlain >>, << HeadersA >> } }

\* calls that send a plain object, with a content-type in the defaults, in
\* the descriptor or nowhere
JsonCalls ==
  { << c, r, [ NoOptions EXCEPT !.method = m, !.body = << PlainObject >>,
                                !.headers = h, !.retry = RetryNumber(0) ] >> :
      c \in { <<>>, << [ NoOptions EXCEPT !.headers = << TextPlain >> ] >> },
      r \in { StringRequest(TheUrl), RequestObject(TheUrl, POST, TextPlainLower) },
      m \in { <<>>, POST },
      h \in { <<>>, << HeadersA >> } }

BodyCalls ==
  { << <<>>, StringRequest(TheUrl), i >> : i \in BodyInputs } \cup JsonCalls

\* the option sets the caller passes to create()
DefaultsA ==
  [ NoOptions EXCEPT !.query = << "a" :> 0 >>, !.params = << "b" :> 2 >>,
                     !.headers = << HeadersA >> ]

DefaultsC ==
  [ NoOptions EXCEPT !.query = << "c" :> 5 >>, !.headers = << HeadersC >> ]

DefaultsBase ==
  [ NoOptions EXCEPT !.baseURL = << "http://localhost:3000" >>,
                     !.params = << "a" :> 7 >> ]

CreateChains ==
  { <<>>, << DefaultsA >>, << DefaultsC >>, << DefaultsA, DefaultsC >>,
    << DefaultsC, DefaultsA >>, << DefaultsBase >>, << DefaultsA, DefaultsBase >> }

\* the request descriptors: URL strings with and without a base and a query
\* part of their own, and a pre-built Request with headers
MergeRequests ==
  { StringRequest(TheUrl),
    StringRequest(Url(<<>>, "/echo", "x" :> 9)),
    RequestObject(TheUrl, <<>>, HeadersFoo) }

\* calls that differ in the headers and the query they pass
MergeInputs ==
  { [ NoOptions EXCEPT !.headers = h, !.query = q[1], !.params = q[2],
                       !.retry = RetryNumber(0) ] :
      h \in { <<>>, << EmptyMap >>, << HeadersB >> },
      q \in { << <<>>, <<>> >>,
              << << "a" :> 1 >>, << "c" :> 3 >> >>,
              << << EmptyMap >>, <<>> >>,
              << <<>>, << ("a" :> 4) @@ ("b" :> 6) >> >> } }

MergeCalls ==
  { << c, r, i >> : c \in CreateChains, r \in MergeRequests, i \in MergeInputs }

\* calls that differ in what the message of their error is composed of
ErrorCalls ==
  { << <<>>, r, [ NoOptions EXCEPT !.method = m, !.retry = RetryNumber(0) ] >> :
      r \in { StringRequest(TheUrl),
              StringRequest(Url(<<>>, "", EmptyMap)),
              RequestObject(TheUrl, <<>>, EmptyMap),
              RequestObject(TheUrl, <<"p","u","t">>, EmptyMap) },
      m \in { <<>>, <<"p","o","s","t">>, DELETE } }

\* calls with a retry budget whose URL is assembled from a base and a query,
\* of the call or of the instance
RetryMergeCalls ==
  { << c, r, [ NoOptions EXCEPT !.query = q, !.baseURL = b, !.retry = RetryNumber(1) ] >> :
      c \in { <<>>, << DefaultsA >>, << DefaultsBase >> },
      r \in { StringRequest(TheUrl), StringRequest(Url(<<>>, "/echo", "x" :> 9)),
              StringRequest(Url(<<>>, "", EmptyMap)) },
      q \in { <<>>, << ("a" :> 1) @@ ("c" :> 3) >> },
      b \in { <<>>, << "http://localhost:3000" >> } }

\* calls whose descriptor is a request object with a method of its own
DescriptorMethodCalls ==
  { << <<>>, RequestObject(TheUrl, m, EmptyMap), [ NoOptions EXCEPT !.method = om ] >> :
      m \in { GET, POST, PUT, PATCH, DELETE }, om \in { <<>>, POST } }

Calls == PlainCalls \cup BodyCalls \cup MergeCalls \cup ErrorCalls \cup RetryMergeCalls
           \cup DescriptorMethodCalls

Statuses ==
  { 101, 200, 204, 205, 304, 399, 400, 403, 404, 408, 500, 599, 600 }

ContentTypes ==
  { <<>>,
    <<"a","p","p","l","i","c","a","t","i","o","n","/","j","s","o","n">>,
    <<"t","e","x","t","/","h","t","m","l",";","c","h","a","r","s","e","t","=","u","t","f","-","8">>,
    <<"i","m","a","g","e","/","p","n","g">> }

\* the reason phrase the server sends with a status
statusText(st) ==
  CASE st = 200 -> "OK"
    [] st = 204 -> "No Content"
    [] st = 403 -> "Forbidden"
    [] st = 404 -> "Not Found"
    [] st = 408 -> "Request Timeout"
    [] st = 500 -> "Internal Server Error"
    [] OTHER -> ""

\* a response as the transport returns it: its body is not read and its
\* decoded-data slot is unset
Response(st, b, ct) ==
  [ status |-> st, statusText |-> statusText(st), body |-> b, contentType |-> ct,
    bodyUsed |-> FALSE, _data |-> "undefined" ]

Responses ==
  { Response(st, TRUE, <<>>) : st \in Statuses }
  \cup { Response(st, b, ct) : st \in {200, 204, 404}, b \in BOOLEAN, ct \in ContentTypes }

(***************************************************************************)
(* The state.                                                              *)
(***************************************************************************)
VARIABLES
  defaults,      \* globalOptions.defaults of the instance
  input,         \* the option set the caller passes to $fetch / $fetch.raw
  request,       \* the request descriptor the caller passes
  creates,       \* the option sets the caller still has to pass to create(),
                 \* one after the other, for the instance it then calls
  pc,            \* where the innermost invocation of $fetchRaw stands
  ctx,           \* its context: options, response and error (none or one)
  hookIdx,       \* callHooks: the callbacks of the current slot already invoked
  abortTimeout,  \* its local abortTimeout: 0, or the timer it scheduled
  retries,       \* onError's local retries
  stack,         \* the suspended invocations, outermost first
  timers,        \* the scheduled timeout callbacks that are still pending
  aborted,       \* per cancellation token: no reason, or the reason it was aborted with
  result,        \* the promise the caller holds
  fetchCount,    \* history: the transport invocations of the call
  hookCalls,     \* history: per slot and callback, its invocations in this attempt
  dataWrites,    \* history: the writes of response._data in this context
  parseCalls,    \* history: the invocations of parseResponse in this context
  lastRetry,     \* history: none, or the retry decided since the last transport
                 \* invocation: the failed context, its budget, the hook
                 \* invocations of the failed attempt, the delay awaited or not
  hookFailed,    \* history: a hook has thrown
  race           \* two calls made at one instant through one instance, on a clock
                 \* (they stay uncalled where a single call is followed)

\* the state of the single call that is followed step by step
attemptVars ==
  << input, request, creates, pc, ctx, hookIdx, abortTimeout, retries, stack, timers,
     aborted, result, fetchCount, hookCalls, dataWrites, parseCalls, lastRetry,
     hookFailed >>

\* ... and the defaults of the instance it is made through
callVars == << defaults, attemptVars >>

vars == << callVars, race >>

\* no callback of any slot has been invoked
NoHookCalls == [ slot \in HookSlots |-> [ i \in 1..MaxHooks |-> 0 ] ]

NoContext ==
  [ request |-> StringRequest(Url(<<>>, "", EmptyMap)), options |-> NoOptions,
    response |-> <<>>, error |-> <<>> ]

Pending == [ state |-> "pending", error |-> <<>> ]

\* a call that was not made yet, of a given option set: where it stands, its
\* context, the time its pending transport invocation or delay ends, and as
\* history the times of its transport invocations, of their failures and of
\* its settling
Uncalled(options) ==
  [ pc |-> "idle", input |-> options, ctx |-> NoContext, due |-> 0,
    sent |-> <<>>, failed |-> <<>>, settledAt |-> 0 ]

\* no two calls are raced
NoRace ==
  [ now |-> 0, latency |-> 1, outcome |-> [ response |-> <<>>, error |-> <<>> ],
    created |-> NoOptions,
    calls |-> [ i \in 1..2 |-> Uncalled(NoOptions) ], settled |-> <<>> ]

\* the state before the caller has created the instance and made the call,
\* the call being one of those given
InitWith(calls) ==
  /\ defaults = NoOptions
  /\ \E call \in calls :
       /\ creates = call[1]
       /\ request = call[2]
       /\ input = call[3]
  /\ pc = "idle"
  /\ ctx = NoContext
  /\ hookIdx = 0
  /\ abortTimeout = 0
  /\ retries = 0
  /\ stack = <<>>
  /\ timers = {}
  /\ aborted = [ s \in Signals |-> <<>> ]
  /\ result = Pending
  /\ fetchCount = 0
  /\ hookCalls = NoHookCalls
  /\ dataWrites = 0
  /\ parseCalls = 0
  /\ lastRetry = <<>>
  /\ hookFailed = FALSE
  /\ race = NoRace

Init == InitWith(Calls)

(***************************************************************************)
(* onError's decisions (src/fetch.ts), as functions of the failed context. *)
(***************************************************************************)
\* a faulty variant: the timeout reason counts as a cancellation
isAbortOnTimeoutError(c) ==
  /\ c.error # <<>>
  /\ \/ c.error[1].name = "AbortError" /\ c.options.timeout = 0
     \/ c.error[1].name = "TimeoutError"

\* a faulty variant: the test of the timeout is inverted
isAbortWhenTimeout(c) ==
  /\ c.error # <<>>
  /\ c.error[1].name = "AbortError"
  /\ c.options.timeout # 0

\* const isAbort = (context.error && context.error.name === "AbortError" &&
\*                  !context.options.timeout) || false
isAbort(c) ==
  /\ c.error # <<>>
  /\ c.error[1].name = "AbortError"
  /\ c.options.timeout = 0

\* a faulty variant: the method of a request object decides the default
retriesOfDescriptorMethod(c) ==
  IF c.options.retry.t = "number"
    THEN c.options.retry.n
    ELSE IF isPayloadMethod(IF c.request.kind = "Request" /\ c.options.method = <<>>
                              THEN c.request.method
                              ELSE c.options.method)
           THEN 0
           ELSE 1

\* let retries: the explicit number, else 0 for a payload method and 1 otherwise
retriesOf(c) ==
  IF c.options.retry.t = "number"
    THEN c.options.retry.n
    ELSE IF isPayloadMethod(c.options.method) THEN 0 ELSE 1

\* const responseCode = (context.response && context.response.status) || 500
responseCode(c) ==
  IF c.response # <<>> /\ c.response[1].status # 0
    THEN c.response[1].status
    ELSE 500

\* a faulty variant: the caller's retryStatusCodes list is not consulted
isRetryStatusOfDefaultSet(c) == responseCode(c) \in retryStatusCodes

\* Array.isArray(retryStatusCodes) ? retryStatusCodes.includes(responseCode)
\*                                 : retryStatusCodes.has(responseCode)
isRetryStatus(c) ==
  IF c.options.retryStatusCodes.isArray
    THEN responseCode(c) \in c.options.retryStatusCodes.codes
    ELSE responseCode(c) \in retryStatusCodes

\* a faulty variant: the budget is not looked at
shouldRetryWhateverBudget(c) ==
  /\ c.options.retry.t # "false"
  /\ ~ isAbort(c)
  /\ isRetryStatus(c)

\* the two nested conditions under which onError calls $fetchRaw again
shouldRetry(c) ==
  /\ c.options.retry.t # "false"
  /\ ~ isAbort(c)
  /\ retriesOf(c) > 0
  /\ isRetryStatus(c)

\* a faulty variant: a retryDelay that is a function is not called
retryDelayOfNumberOnly(c) ==
  IF c.options.retryDelay.isFunction THEN 0 ELSE c.options.retryDelay.n

\* const retryDelay = typeof context.options.retryDelay === "function"
\*   ? context.options.retryDelay(context) : context.options.retryDelay || 0
retryDelayOf(c) ==
  IF c.options.retryDelay.isFunction
    THEN c.options.retryDelay.returns
    ELSE c.options.retryDelay.n

\* a faulty variant: the retry is made at once, whatever the delay
awaitsDelayNever(c) == FALSE

\* if (retryDelay > 0) { await new Promise((resolve) => setTimeout(resolve, retryDelay)) }
awaitsDelay(c) == retryDelayOf(c) > 0

\* a faulty variant: the budget is passed on as it is
retryOptionsSameBudget(c, n) == [ c.options EXCEPT !.retry = RetryNumber(n) ]

\* the options of the retry: { ...context.options, retry: retries - 1 }
retryOptions(c, n) == [ c.options EXCEPT !.retry = RetryNumber(n - 1) ]

\* error.toString(): the name, and the message behind it when there is one
toString(e) ==
  IF e.message = <<>> THEN << e.name >> ELSE << e.name, ": " >> \o e.message

\* the keys a query part is written with, in their order
QueryKeys == << "a", "b", "c", "x" >>

\* the "?key=value&key=value" of a URL string
RECURSIVE queryPairs(_, _, _)
queryPairs(query, keys, first) ==
  IF keys = <<>> THEN <<>>
  ELSE IF Head(keys) \in DOMAIN query
    THEN << IF first THEN "?" ELSE "&", Head(keys), "=", ToString(query[Head(keys)]) >>
           \o queryPairs(query, Tail(keys), FALSE)
    ELSE queryPairs(query, Tail(keys), first)

\* the text of a URL string
String(url) ==
  url.base \o (IF url.path = "" THEN <<>> ELSE << url.path >>)
           \o queryPairs(url.query, QueryKeys, TRUE)

\* const errorMessage = ctx.error?.message || ctx.error?.toString() || ""
errorMessageOf(c) ==
  IF c.error = <<>> THEN <<>>
  ELSE IF c.error[1].message # <<>> THEN c.error[1].message
  ELSE toString(c.error[1])

\* a faulty variant: the method of the options comes first
methodOfOptionsFirst(c) ==
  IF c.options.method # <<>> THEN c.options.method
  ELSE IF c.request.method # <<>> THEN c.request.method
  ELSE GET

\* const method = request?.method || options?.method || "GET"
methodOf(c) ==
  IF c.request.method # <<>> THEN c.request.method
  ELSE IF c.options.method # <<>> THEN c.options.method
  ELSE GET

\* const url = request?.url || String(request) || "/"
urlOf(c) ==
  IF c.request.kind = "Request" THEN String(c.request.url)
  ELSE IF String(c.request.url) # <<>> THEN String(c.request.url)
  ELSE << "/" >>

\* const statusStr = response ? `${status} ${statusText}` : "<no response>"
statusStr(c) ==
  IF c.response # <<>>
    THEN << ToString(c.response[1].status), " ", c.response[1].statusText >>
    ELSE << "<no response>" >>

\* `[${method}] ${JSON.stringify(url)}: ${statusStr}${
\*    errorMessage ? ` ${errorMessage}` : ""}`
composeMessage(c) ==
  << "[" >> \o methodOf(c) \o << "] ", "\"" >> \o urlOf(c) \o << "\"", ": " >>
    \o statusStr(c)
    \o (IF errorMessageOf(c) # <<>> THEN << " " >> \o errorMessageOf(c) ELSE <<>>)

\* a faulty variant: the accessors return what the context held when the
\* error was created
accessorsOfSnapshot(c) == << c >>

\* Object.defineProperty(fetchError, key, { get() { return ctx[key] } }): the
\* accessors close over the context object itself, nothing is copied
accessorsOf(c) == <<>>

\* the context an accessor of the error reads when it is called
contextOf(e) == IF e.accessors = <<>> THEN ctx ELSE e.accessors[1]

\* get() { return ctx[key] } for request, options and response
error_request(e) == contextOf(e).request

error_options(e) == contextOf(e).options

error_response(e) == contextOf(e).response

\* get() { return ctx.response && ctx.response[refKey] }: none when the
\* context holds no response
responseField(e, refKey) ==
  IF contextOf(e).response = <<>> THEN <<>>
  ELSE << contextOf(e).response[1][refKey] >>

error_data(e) == responseField(e, "_data")

error_status(e) == responseField(e, "status")

error_statusCode(e) == responseField(e, "status")

error_statusText(e) == responseField(e, "statusText")

error_statusMessage(e) == responseField(e, "statusText")

\* a faulty variant: the cause is not handed to the error
createFetchErrorWithoutCause(c) ==
  [ name |-> "FetchError", code |-> 0, message |-> composeMessage(c),
    cause |-> <<>>, accessors |-> accessorsOf(c) ]

\* createFetchError(context)
createFetchError(c) ==
  [ name |-> "FetchError", code |-> 0, message |-> composeMessage(c),
    cause |-> c.error, accessors |-> accessorsOf(c) ]

(***************************************************************************)
(* $fetchRaw's decisions.                                                  *)
(***************************************************************************)
\* a faulty variant: the merged query is set in the URL and query and params
\* stay in the options
assembleUrlKeepsQuery(c) ==
  IF c.request.kind = "string"
    THEN LET based == IF c.options.baseURL # <<>>
                        THEN withBase(c.request.url, c.options.baseURL[1])
                        ELSE c.request.url
             queried == IF c.options.query # <<>>
                          THEN withQuery(based, c.options.query[1])
                          ELSE based
         IN  [ c EXCEPT !.request.url = queried ]
    ELSE c

\* the URL assembly of a string descriptor: the base URL is applied, the
\* merged query is set in the URL, and query and params leave the options
assembleUrl(c) ==
  IF c.request.kind = "string"
    THEN LET based == IF c.options.baseURL # <<>>
                        THEN withBase(c.request.url, c.options.baseURL[1])
                        ELSE c.request.url
             queried == IF c.options.query # <<>>
                          THEN withQuery(based, c.options.query[1])
                          ELSE based
         IN  [ c EXCEPT !.request.url = queried,
                        !.options.query = <<>>,
                        !.options.params = <<>> ]
    ELSE c

\* a faulty variant: content-type and accept are set whatever the container
\* holds
defaultJsonHeadersAlways(headers) ==
  set(set(Headers(Spread(headers)), content_type, "application/json"),
      accept, "application/json")

\* headers = new Headers(options.headers || {}), with content-type and accept
\* set to application/json where the container has none
defaultJsonHeaders(headers) ==
  LET copy == Headers(Spread(headers))
      typed == IF has(copy, content_type) THEN copy
               ELSE set(copy, content_type, "application/json")
  IN  IF has(typed, accept) THEN typed ELSE set(typed, accept, "application/json")

\* if (context.options.body && isPayloadMethod(context.options.method))
takesBody(c) ==
  /\ c.options.body # <<>>
  /\ ~ falsy(c.options.body[1])
  /\ isPayloadMethod(c.options.method)

\* the body preparation
prepareBody(c) ==
  IF takesBody(c)
    THEN LET body == c.options.body[1]
         IN  IF isJSONSerializable(body)
               THEN [ c EXCEPT
                        !.options.body =
                          << IF body.typeof = "string" THEN body
                             ELSE JSON_stringify(body) >>,
                        !.options.headers = << defaultJsonHeaders(@) >> ]
               ELSE IF isStream(body) /\ c.options.duplex = "undefined"
                      THEN [ c EXCEPT !.options.duplex = "half" ]
                      ELSE c
    ELSE c

\* a faulty variant: the timeout is armed whether or not a signal is set
armsTimeoutAlways(c) == c.options.timeout > 0

\* a faulty variant: the test of the signal is inverted
armsTimeoutWithSignal(c) ==
  /\ c.options.signal # NoSignal
  /\ c.options.timeout > 0

\* if (!context.options.signal && context.options.timeout)
armsTimeout(c) ==
  /\ c.options.signal = NoSignal
  /\ c.options.timeout > 0

\* const hasBody = (response.body || response._bodyInit) &&
\*   !nullBodyResponses.has(response.status) && options.method !== "HEAD"
hasBody(c) ==
  /\ c.response[1].body
  /\ c.response[1].status \notin nullBodyResponses
  /\ c.options.method # HEAD

\* a faulty variant: an explicit responseType comes before parseResponse
responseTypeOfTypeFirst(c) ==
  IF c.options.responseType # "undefined" THEN c.options.responseType
  ELSE IF c.options.parseResponse THEN "json"
  ELSE detectResponseType(c.response[1].contentType)

\* const responseType = (parseResponse ? "json" : options.responseType) ||
\*   detectResponseType(response.headers.get("content-type") || "")
responseTypeOf(c) ==
  IF c.options.parseResponse THEN "json"
  ELSE IF c.options.responseType # "undefined" THEN c.options.responseType
  ELSE detectResponseType(c.response[1].contentType)

\* what the switch on responseType stores in response._data
decoded(c) ==
  CASE responseTypeOf(c) = "json" ->
         IF c.options.parseResponse THEN "parseResponse(text)" ELSE "destr(text)"
    [] responseTypeOf(c) = "stream" -> "body"
    [] OTHER -> responseTypeOf(c)

\* the invocations of the caller's parseResponse in the switch: one in the
\* json case, when the option is given
parseResponseCalls(c) ==
  IF responseTypeOf(c) = "json" /\ c.options.parseResponse THEN 1 ELSE 0

\* the switch reads the body (response.text(), response[responseType]()) in
\* every case but "stream", which stores the body channel itself
consumesBody(c) == responseTypeOf(c) # "stream"

\* a faulty variant: status 400 is not an error status
isResponseErrorAbove400(c) ==
  /\ ~ c.options.ignoreResponseError
  /\ c.response[1].status > 400
  /\ c.response[1].status < 600

\* if (!options.ignoreResponseError && status >= 400 && status < 600)
isResponseError(c) ==
  /\ ~ c.options.ignoreResponseError
  /\ c.response[1].status >= 400
  /\ c.response[1].status < 600

\* clearTimeout(id)
clearTimeout(t, id) == t \ { id }

\* a faulty variant: the timer is left scheduled
finallyKeepsTimer(t, id) == t

\* finally { if (abortTimeout) { clearTimeout(abortTimeout) } }
finally(t, id) == IF id # 0 THEN clearTimeout(t, id) ELSE t

\* the finally blocks of the suspended invocations a result passes through:
\* only an invocation suspended inside its catch block has one left to run
RECURSIVE unwind(_, _)
unwind(t, frames) ==
  IF frames = <<>> THEN t
  ELSE unwind(IF frames[Len(frames)].at = "catch"
                THEN finally(t, frames[Len(frames)].abortTimeout)
                ELSE t,
              SubSeq(frames, 1, Len(frames) - 1))

\* the innermost invocation stands inside its catch block
inCatch == ctx.error # <<>>

(***************************************************************************)
(* The steps of a call.                                                    *)
(***************************************************************************)
\* $fetchRaw(_request, _options) up to its first hook: the context is built
\* from the resolved options and the method is upper-cased
newContextOf(_request, _options, dflt) ==
  LET resolved == resolveFetchOptions(_request, _options, dflt)
      options == [ resolved EXCEPT !.method = toUpperCase(@) ]
  IN  [ request |-> _request, options |-> options,
        response |-> <<>>, error |-> <<>> ]

\* ... with globalOptions.defaults of the instance
newContext(_request, _options) == newContextOf(_request, _options, defaults)

\* a faulty variant: the options are resolved into the defaults object, as
\* Object.assign(defaults, input, ...) would
resolvedObjectIsDefaults == "defaults"

\* return { ...defaults, ...input, query, params, headers }: the resolved
\* options are an object of their own, neither the defaults nor the input
resolvedObject == "new"

\* new Headers(input), new Headers(defaults): the merged headers are a
\* container of their own
mergedContainer == "new"

\* the defaults of the instance once $fetchRaw has written the options of a
\* context: the writes reach them only if the options or their header
\* container are the defaults' own
defaultsAfter(dflt, options) ==
  IF resolvedObject = "defaults" THEN options
  ELSE IF mergedContainer = "defaults"
    THEN [ dflt EXCEPT !.headers = << Spread(options.headers) >> ]
    ELSE dflt

\* the caller's option object once $fetchRaw has written the options of a
\* context
inputAfter(in, options) ==
  IF resolvedObject = "input" THEN options
  ELSE IF mergedContainer = "input"
    THEN [ in EXCEPT !.headers = << Spread(options.headers) >> ]
    ELSE in

\* $fetchRaw is entered: the context is created and the onRequest hooks start
enterFetchRaw(_request, _options) ==
      /\ ctx' = newContext(_request, _options)
      /\ pc' = "onRequest"
      /\ hookIdx' = 0
      /\ abortTimeout' = 0
      /\ hookCalls' = NoHookCalls
      /\ dataWrites' = 0
      /\ parseCalls' = 0

\* the call's promise settles: the result passes through the finally block of
\* the innermost invocation, when it stands in its catch block, and through
\* those of the suspended ones
settle(state, error) ==
  /\ pc' = "done"
  /\ result' = [ state |-> state, error |-> error ]
  /\ timers' = unwind(IF inCatch THEN finally(timers, abortTimeout) ELSE timers, stack)
  /\ stack' = <<>>

\* the caller derives the instance it is going to call:
\* $fetch.create(defaultOptions) on the instance it holds
create ==
  /\ pc = "idle"
  /\ creates # <<>>
  /\ defaults' = createDefaults(defaults, Head(creates))
  /\ creates' = Tail(creates)
  /\ UNCHANGED << race, input, request, pc, ctx, hookIdx, abortTimeout, retries, stack,
                  timers, aborted, result, fetchCount, hookCalls, dataWrites, parseCalls,
                  lastRetry, hookFailed >>

\* the caller calls $fetch(request, input) or $fetch.raw(request, input)
Call ==
  /\ pc = "idle"
  /\ creates = <<>>
  /\ enterFetchRaw(request, input)
  /\ UNCHANGED << race, defaults, input, request, creates, retries, stack, timers, aborted, result,
                  fetchCount, lastRetry, hookFailed >>

\* callHooks: the next callback of the slot is invoked and returns
HookReturns ==
  /\ pc \in HookSlots
  /\ hookIdx < hookCount(ctx.options[pc])
  /\ hookIdx' = hookIdx + 1
  /\ hookCalls' = [ hookCalls EXCEPT ![pc][hookIdx + 1] = @ + 1 ]
  /\ UNCHANGED << race, defaults, input, request, creates, pc, ctx, abortTimeout, retries, stack, timers,
                  aborted, result, fetchCount, dataWrites, parseCalls, lastRetry, hookFailed >>

\* a faulty variant: the hook's error is swallowed and the slot goes on
HookThrowsSwallowed ==
  /\ pc \in HookSlots
  /\ hookIdx < hookCount(ctx.options[pc])
  /\ hookIdx' = hookIdx + 1
  /\ hookCalls' = [ hookCalls EXCEPT ![pc][hookIdx + 1] = @ + 1 ]
  /\ hookFailed' = TRUE
  /\ UNCHANGED << race, defaults, input, request, creates, pc, ctx, abortTimeout, retries, stack, timers,
                  aborted, result, fetchCount, dataWrites, parseCalls, lastRetry >>

\* callHooks: the next callback of the slot is invoked and throws; nothing in
\* $fetchRaw catches it
HookThrows ==
  /\ pc \in HookSlots
  /\ hookIdx < hookCount(ctx.options[pc])
  /\ hookCalls' = [ hookCalls EXCEPT ![pc][hookIdx + 1] = @ + 1 ]
  /\ hookFailed' = TRUE
  /\ settle("rejected", << HookError >>)
  /\ UNCHANGED << race, defaults, input, request, creates, ctx, hookIdx, abortTimeout, retries, aborted,
                  fetchCount, dataWrites, parseCalls, lastRetry >>

\* a faulty variant: the transport is invoked without waiting for the
\* onRequest hooks
SendRequestEarly ==
  /\ pc = "onRequest"
  /\ LET prepared == prepareBody(assembleUrl(ctx))
     IN  IF armsTimeout(prepared)
           THEN /\ abortTimeout' = Len(stack) + 1
                /\ timers' = timers \cup { Len(stack) + 1 }
                /\ ctx' = [ prepared EXCEPT
                              !.options.signal = InternalSignal(Len(stack) + 1) ]
           ELSE /\ ctx' = prepared
                /\ UNCHANGED << abortTimeout, timers >>
  /\ fetchCount' = fetchCount + 1
  /\ lastRetry' = <<>>
  /\ pc' = "fetch"
  /\ UNCHANGED << race, defaults, input, request, creates, hookIdx, retries, stack, aborted, result,
                  hookCalls, dataWrites, parseCalls, hookFailed >>

\* after the onRequest hooks: the URL is assembled, the body prepared, the
\* timeout armed and the transport invoked with context.request and
\* context.options
SendRequest ==
  /\ pc = "onRequest"
  /\ hookIdx = hookCount(ctx.options.onRequest)
  /\ LET prepared == prepareBody(assembleUrl(ctx))
     IN  IF armsTimeout(prepared)
           THEN /\ abortTimeout' = Len(stack) + 1
                /\ timers' = timers \cup { Len(stack) + 1 }
                /\ ctx' = [ prepared EXCEPT
                              !.options.signal = InternalSignal(Len(stack) + 1) ]
           ELSE /\ ctx' = prepared
                /\ UNCHANGED << abortTimeout, timers >>
  /\ fetchCount' = fetchCount + 1
  /\ lastRetry' = <<>>
  /\ pc' = "fetch"
  /\ UNCHANGED << race, defaults, input, request, creates, hookIdx, retries, stack, aborted, result,
                  hookCalls, dataWrites, parseCalls, hookFailed >>

\* the token handed to the transport has been aborted
signalAborted ==
  /\ ctx.options.signal # NoSignal
  /\ aborted[ctx.options.signal] # <<>>

\* context.response = await fetch(...): the context takes the response; the
\* finally block clears the timeout
returns(response) ==
  /\ ctx' = [ ctx EXCEPT !.response = << response >> ]
  /\ timers' = finally(timers, abortTimeout)
  /\ pc' = "decode"
  /\ UNCHANGED << race, defaults, input, request, creates, hookIdx, abortTimeout, retries, stack, aborted,
                  result, fetchCount, hookCalls, dataWrites, parseCalls, lastRetry, hookFailed >>

\* the transport returns a response
TransportResponds ==
  /\ pc = "fetch"
  /\ ~ signalAborted
  /\ \E r \in Responses : returns(r)

\* the catch block of $fetchRaw: context.error = error, then onRequestError
catch(error) ==
  /\ ctx' = [ ctx EXCEPT !.error = << error >> ]
  /\ pc' = "onRequestError"
  /\ hookIdx' = 0
  /\ UNCHANGED << race, defaults, input, request, creates, abortTimeout, retries, stack, timers, aborted,
                  result, fetchCount, hookCalls, dataWrites, parseCalls, lastRetry, hookFailed >>

\* the transport throws of its own: the network has failed
TransportFails ==
  /\ pc = "fetch"
  /\ \E error \in TransportErrors : catch(error)

\* the transport honours the cancellation of its token: it throws the reason
TransportAborted ==
  /\ pc = "fetch"
  /\ signalAborted
  /\ catch(aborted[ctx.options.signal][1])

\* a scheduled timeout callback runs: controller.abort(error)
TimerFires ==
  \E id \in timers :
    /\ timers' = timers \ { id }
    /\ aborted' = [ aborted EXCEPT ![InternalSignal(id)] = << TimeoutError >> ]
    /\ UNCHANGED << race, defaults, input, request, creates, pc, ctx, hookIdx, abortTimeout, retries, stack,
                    result, fetchCount, hookCalls, dataWrites, parseCalls, lastRetry, hookFailed >>

\* the caller aborts the controller whose signal it passed
CallerAborts ==
  /\ input.signal = CallerSignal
  /\ pc # "done"
  /\ aborted[CallerSignal] = <<>>
  /\ aborted' = [ aborted EXCEPT ![CallerSignal] = << AbortError >> ]
  /\ UNCHANGED << race, defaults, input, request, creates, pc, ctx, hookIdx, abortTimeout, retries, stack,
                  timers, result, fetchCount, hookCalls, dataWrites, parseCalls, lastRetry,
                  hookFailed >>

\* a faulty variant: the onResponse hooks are skipped for an error status
DecodeSkipsHooksOnError ==
  /\ pc = "decode"
  /\ IF hasBody(ctx)
       THEN /\ ctx' = [ ctx EXCEPT !.response[1]._data = decoded(ctx),
                                   !.response[1].bodyUsed = consumesBody(ctx) ]
            /\ dataWrites' = dataWrites + 1
            /\ parseCalls' = parseCalls + parseResponseCalls(ctx)
       ELSE UNCHANGED << ctx, dataWrites, parseCalls >>
  /\ pc' = "onResponse"
  /\ hookIdx' = IF ctx.response[1].status >= 400
                 THEN hookCount(ctx.options.onResponse)
                 ELSE 0
  /\ UNCHANGED << race, defaults, input, request, creates, abortTimeout, retries, stack, timers, aborted,
                  result, fetchCount, hookCalls, lastRetry, hookFailed >>

\* the response body is decoded into response._data, when one is expected
Decode ==
  /\ pc = "decode"
  /\ IF hasBody(ctx)
       THEN /\ ctx' = [ ctx EXCEPT !.response[1]._data = decoded(ctx),
                                   !.response[1].bodyUsed = consumesBody(ctx) ]
            /\ dataWrites' = dataWrites + 1
            /\ parseCalls' = parseCalls + parseResponseCalls(ctx)
       ELSE UNCHANGED << ctx, dataWrites, parseCalls >>
  /\ pc' = "onResponse"
  /\ hookIdx' = 0
  /\ UNCHANGED << race, defaults, input, request, creates, abortTimeout, retries, stack, timers, aborted,
                  result, fetchCount, hookCalls, lastRetry, hookFailed >>

\* reading the body, or the caller's parseResponse, throws; nothing in
\* $fetchRaw catches it (the stream strategy reads nothing)
DecodeThrows ==
  /\ pc = "decode"
  /\ hasBody(ctx)
  /\ responseTypeOf(ctx) # "stream"
  /\ settle("rejected", << BodyError >>)
  /\ UNCHANGED << race, defaults, input, request, creates, ctx, hookIdx, abortTimeout, retries, aborted,
                  fetchCount, hookCalls, dataWrites, parseCalls, lastRetry, hookFailed >>

\* after the onResponse hooks: the status check
StatusCheck ==
  /\ pc = "onResponse"
  /\ hookIdx = hookCount(ctx.options.onResponse)
  /\ IF isResponseError(ctx)
       THEN /\ pc' = "onResponseError"
            /\ hookIdx' = 0
            /\ UNCHANGED << stack, timers, result >>
       ELSE /\ settle("fulfilled", <<>>)
            /\ UNCHANGED hookIdx
  /\ UNCHANGED << race, defaults, input, request, creates, ctx, abortTimeout, retries, aborted, fetchCount,
                  hookCalls, dataWrites, parseCalls, lastRetry, hookFailed >>

\* onError calls $fetchRaw(context.request, retryOptions): the calling
\* invocation stays suspended until the new one settles
retry(n) ==
  /\ Len(stack) + 1 < MaxAttempts
  /\ stack' = Append(stack, [ abortTimeout |-> abortTimeout,
                              at |-> IF inCatch THEN "catch" ELSE "status" ])
  /\ enterFetchRaw(ctx.request, retryOptions(ctx, n))

\* after the onRequestError or onResponseError hooks: onError(context)
OnError ==
  /\ pc \in { "onRequestError", "onResponseError" }
  /\ hookIdx = hookCount(ctx.options[pc])
  /\ IF shouldRetry(ctx)
       THEN /\ retries' = retriesOf(ctx)
            /\ lastRetry' = << [ context |-> ctx, retries |-> retriesOf(ctx),
                                 hookCalls |-> hookCalls, waited |-> FALSE ] >>
            /\ IF awaitsDelay(ctx)
                 THEN /\ pc' = "retryDelay"
                      /\ UNCHANGED << ctx, hookIdx, abortTimeout, stack, hookCalls,
                                      dataWrites, parseCalls >>
                 ELSE retry(retriesOf(ctx))
            /\ UNCHANGED << timers, result >>
       ELSE /\ settle("rejected", << createFetchError(ctx) >>)
            /\ UNCHANGED << ctx, hookIdx, abortTimeout, retries, hookCalls,
                            dataWrites, parseCalls, lastRetry >>
  /\ UNCHANGED << race, defaults, input, request, creates, aborted, fetchCount, hookFailed >>

\* the retry delay has elapsed: setTimeout(resolve, retryDelay) resolves
RetryDelayElapses ==
  /\ pc = "retryDelay"
  /\ retry(retries)
  /\ lastRetry' = << [ lastRetry[1] EXCEPT !.waited = TRUE ] >>
  /\ UNCHANGED << race, defaults, input, request, creates, retries, timers, aborted, result, fetchCount,
                  hookFailed >>

\* the caller holds the error of the rejected call and replaces the data
\* that was decoded into the response it reaches through it
CallerRewritesData ==
  /\ pc = "done"
  /\ result.state = "rejected"
  /\ result.error[1].name = "FetchError"
  /\ ctx.response # <<>>
  /\ ctx.response[1]._data \notin { "undefined", "rewritten" }
  /\ ctx' = [ ctx EXCEPT !.response[1]._data = "rewritten" ]
  /\ UNCHANGED << race, defaults, input, request, creates, pc, hookIdx, abortTimeout, retries, stack,
                  timers, aborted, result, fetchCount, hookCalls, dataWrites, parseCalls,
                  lastRetry, hookFailed >>

Next ==
  \/ create
  \/ Call
  \/ HookReturns
  \/ HookThrows
  \/ SendRequest
  \/ TransportResponds
  \/ TransportFails
  \/ TransportAborted
  \/ TimerFires
  \/ CallerAborts
  \/ Decode
  \/ DecodeThrows
  \/ StatusCheck
  \/ OnError
  \/ RetryDelayElapses
  \/ CallerRewritesData

Spec == Init /\ [][Next]_vars

(***************************************************************************)
(* The properties.  They are stated over the caller's input and the        *)
(* observable state, in their own terms.                                   *)
(***************************************************************************)
\* the call's method is one of PATCH, POST, PUT, DELETE, in any letter case
PayloadCall == toUpperCase(input.method) \in { PATCH, POST, PUT, DELETE }

\* the retry budget of the first attempt
FirstBudget ==
  IF input.retry.t = "number" THEN input.retry.n
  ELSE IF PayloadCall THEN 0 ELSE 1

\* the status observed in a failed context: 500 when no response exists
ObservedStatus(c) == IF c.response = <<>> THEN 500 ELSE c.response[1].status

\* the retry-status set of the call
RetryStatusSet ==
  IF input.retryStatusCodes.isArray
    THEN input.retryStatusCodes.codes
    ELSE { 408, 409, 425, 429, 500, 502, 503, 504 }

\* the context failed by a cancellation error and the call has no timeout
Cancelled(c) ==
  /\ c.error # <<>>
  /\ c.error[1].name = "AbortError"
  /\ input.timeout = 0

\* the call has rejected with a normalized error
NormalizedRejection ==
  /\ pc = "done"
  /\ result.state = "rejected"
  /\ result.error[1].name = "FetchError"

\* a retry has just been decided and its transport invocation not yet made
RetryDecided == lastRetry # <<>>

\* the number of the attempt whose failure the retry was decided on
FailedAttempt == IF pc = "retryDelay" THEN Len(stack) + 1 ELSE Len(stack)

\* C1: in a retry attempt the context's retry budget is a number, one less
\* than the budget computed for the attempt that failed; it is the first
\* attempt's budget less the retries made, so it never rises or resets; with
\* an explicit numeric retry n the transport is invoked at most n + 1 times.
C1_RetryBudgetDecreases ==
  /\ (RetryDecided /\ pc = "onRequest") =>
       ctx.options.retry = RetryNumber(lastRetry[1].retries - 1)
  /\ (pc # "idle" /\ Len(stack) > 0) =>
       ctx.options.retry = RetryNumber(FirstBudget - Len(stack))
  /\ input.retry.t = "number" => fetchCount <= input.retry.n + 1

\* a second retry has been decided, the budget MaxRetry being used up
C1_Witness ==
  /\ input.retry = RetryNumber(MaxRetry)
  /\ MaxRetry >= 2
  /\ RetryDecided
  /\ pc = "onRequest"
  /\ Len(stack) = MaxRetry
  /\ ctx.options.retry = RetryNumber(0)

C3_RetryOnlyOnBudgetAndStatus ==
  RetryDecided =>
    /\ FirstBudget - (FailedAttempt - 1) > 0
    /\ ObservedStatus(lastRetry[1].context) \in RetryStatusSet
    /\ ~ input.retryStatusCodes.isArray =>
         ObservedStatus(lastRetry[1].context) \notin { 403, 404 }

\* a 403 is retried because the caller's retryStatusCodes list holds it
C3_Witness ==
  /\ RetryDecided
  /\ input.retryStatusCodes.isArray
  /\ lastRetry[1].context.response # <<>>
  /\ ObservedStatus(lastRetry[1].context) = 403

\* C4: an attempt that failed by a cancellation error (name AbortError) in a
\* call with no timeout is never retried, and no attempt is when retry is
\* false; the call then rejects with a normalized error whose cause is the
\* transport's error.
C4_AbortIsNotRetried ==
  /\ RetryDecided =>
       /\ ~ Cancelled(lastRetry[1].context)
       /\ input.retry # RetryFalse
  /\ Cancelled(ctx) => pc \in { "onRequestError", "done" }
  /\ input.retry = RetryFalse => fetchCount <= 1
  /\ ( /\ pc = "done"
       /\ ~ hookFailed
       /\ ctx.error # <<>>
       /\ Cancelled(ctx) \/ input.retry = RetryFalse )
     => /\ NormalizedRejection
        /\ result.error[1].cause = ctx.error

\* a call with retry budget MaxRetry and no timeout, cancelled by its caller,
\* has rejected after one transport invocation
C4_Witness ==
  /\ input.retry = RetryNumber(MaxRetry)
  /\ MaxRetry >= 1
  /\ Cancelled(ctx)
  /\ NormalizedRejection
  /\ result.error[1].cause = << AbortError >>
  /\ fetchCount = 1

\* C5: once a hook has thrown, the call has rejected with the hook's error:
\* it is settled, so no transport invocation and no hook follows, whatever
\* the retry budget and the status.
C5_HookFailureIsFatal ==
  hookFailed =>
    /\ pc = "done"
    /\ result = [ state |-> "rejected", error |-> << HookError >> ]

\* a hook has thrown after a 500 response in a call with retry budget MaxRetry
C5_Witness ==
  /\ hookFailed
  /\ input.retry = RetryNumber(MaxRetry)
  /\ MaxRetry >= 1
  /\ ctx.response # <<>>
  /\ ObservedStatus(ctx) = 500
  /\ hookCalls["onResponseError"][1] = 1
  /\ fetchCount = 1

(***************************************************************************)
(* A transport that never responds: it neither returns nor fails of its    *)
(* own, and throws only when its token is aborted.  Every step that the    *)
(* event loop has enabled is taken in the end: a pending timer fires, a    *)
(* hook returns or throws, a continuation runs.                            *)
(***************************************************************************)
NextSilent ==
  \/ create
  \/ Call
  \/ HookReturns
  \/ HookThrows
  \/ SendRequest
  \/ TransportAborted
  \/ TimerFires
  \/ CallerAborts
  \/ OnError
  \/ RetryDelayElapses

FairSilent ==
  /\ WF_vars(HookReturns \/ HookThrows)
  /\ WF_vars(SendRequest)
  /\ WF_vars(TransportAborted)
  /\ WF_vars(TimerFires)
  /\ WF_vars(OnError)
  /\ WF_vars(RetryDelayElapses)

SpecSilent == Init /\ [][NextSilent]_vars /\ FairSilent

\* the call was made with a timeout and without a signal of the caller
TimeoutCall ==
  /\ pc # "idle"
  /\ input.timeout > 0
  /\ input.signal = NoSignal

\* the error is the timeout reason
IsTimeoutReason(e) ==
  /\ e.name = "TimeoutError"
  /\ e.code = 23
  /\ \E i \in DOMAIN e.message :
       e.message[i] = "The operation was aborted due to timeout"

\* the call has rejected with a normalized error caused by the timeout reason
RejectedByTimeout ==
  /\ NormalizedRejection
  /\ result.error[1].cause # <<>>
  /\ IsTimeoutReason(result.error[1].cause[1])

\* C6: against a transport that never responds, a call with a timeout and no
\* signal of the caller rejects in the end, for every retry option, and the
\* rejection's cause is the timeout reason (name TimeoutError, code 23, the
\* message holding "The operation was aborted due to timeout"), unless one of
\* the caller's hooks has thrown, whose error then is the rejection.
C6_TimeoutRejects ==
  TimeoutCall ~>
    ( /\ pc = "done"
      /\ result.state = "rejected"
      /\ hookFailed \/ RejectedByTimeout )

\* the timeout has ended a call whose MaxRetry retries all met the abort
C6_Witness ==
  /\ TimeoutCall
  /\ input.retry = RetryNumber(MaxRetry)
  /\ RejectedByTimeout
  /\ fetchCount = MaxRetry + 1
  /\ ~ hookFailed

\* C7: when the call has settled, by whatever path, no timeout callback
\* scheduled by any of its attempts is pending.
C7_NoTimerPendingWhenSettled == pc = "done" => timers = {}

\* a call that armed its timeout has rejected on a network failure, the
\* timeout not having fired
C7_Witness ==
  /\ pc = "done"
  /\ ctx.options.signal = InternalSignal(1)
  /\ aborted[InternalSignal(1)] = <<>>
  /\ ctx.error = << NetworkError >>
  /\ Len(result.error) = 1
  /\ fetchCount >= 2

\* the response has an error status
ErrorStatus(c) == c.response[1].status >= 400 /\ c.response[1].status < 600

\* no callback of the slot has been invoked in this attempt
NotInvoked(slot) == \A i \in 1..MaxHooks : hookCalls[slot][i] = 0

Callbacks(slot) == IF input[slot].isArray THEN input[slot].n
                   ELSE IF input[slot] = NoHook THEN 0 ELSE 1

\* every callback of the slot has been invoked exactly once in this attempt
InvokedOnce(slot) ==
  \A i \in 1..MaxHooks : hookCalls[slot][i] = IF i <= Callbacks(slot) THEN 1 ELSE 0

\* the attempt has left error handling: a retry is awaited or a normalized
\* error has been raised
Handled == pc = "retryDelay" \/ NormalizedRejection

C10_NoBodyNoData ==
  /\ ( /\ ctx.response # <<>>
       /\ \/ ctx.response[1].status \in { 101, 204, 205, 304 }
          \/ toUpperCase(input.method) = HEAD )
     => ctx.response[1]._data = "undefined"
  /\ dataWrites <= 1

\* a 204 response with a body channel and a content-type is the result of a
\* call with a parseResponse
C10_Witness ==
  /\ pc = "done"
  /\ result.state = "fulfilled"
  /\ input.parseResponse
  /\ ctx.response[1].status = 204
  /\ ctx.response[1].body
  /\ ctx.response[1].contentType # <<>>

\* a body is expected of the response
BodyExpected ==
  /\ ctx.response # <<>>
  /\ ctx.response[1].body
  /\ ctx.response[1].status \notin { 101, 204, 205, 304 }
  /\ toUpperCase(input.method) # HEAD

\* the decode step of the attempt is over and the response still as it left it
Decoded ==
  \/ pc \in { "onResponse", "onResponseError", "retryDelay" }
  \/ pc = "done" /\ result.state = "fulfilled"

\* the strategy the precedence asks for
Strategy ==
  IF input.parseResponse THEN "json"
  ELSE IF input.responseType # "undefined" THEN input.responseType
  ELSE detectResponseType(ctx.response[1].contentType)

\* C11: when a body is expected, the decoded data is: the result of
\* parseResponse on the body text, invoked exactly once, when parseResponse is
\* given (whatever the responseType); else what the explicit responseType
\* reads; else what the strategy detected from the content-type reads; with
\* no parseResponse it is never invoked, and the stream strategy stores the
\* body channel and leaves the body unread, while every other one reads it.
C11_DecodePrecedence ==
  (BodyExpected /\ Decoded) =>
    /\ dataWrites = 1
    /\ parseCalls = IF input.parseResponse THEN 1 ELSE 0
    /\ ctx.response[1]._data =
         CASE Strategy = "json" ->
                IF input.parseResponse THEN "parseResponse(text)" ELSE "destr(text)"
           [] Strategy = "stream" -> "body"
           [] OTHER -> Strategy
    /\ ctx.response[1].bodyUsed = (Strategy # "stream")

\* a call with parseResponse and responseType "stream" has returned a
\* response with a body, decoded by parseResponse
C11_Witness ==
  /\ pc = "done"
  /\ result.state = "fulfilled"
  /\ input.parseResponse
  /\ input.responseType = "stream"
  /\ BodyExpected
  /\ parseCalls = 1
  /\ ctx.response[1]._data = "parseResponse(text)"
  /\ ctx.response[1].bodyUsed

\* the transport has been invoked in this attempt: the context holds the
\* request and the options that were handed to it
Sent ==
  \/ pc \in { "fetch", "onRequestError", "decode", "onResponse", "onResponseError",
              "retryDelay" }
  \/ pc = "done" /\ (ctx.response # <<>> \/ ctx.error # <<>>)

\* the header set handed to the transport
SentHeaders == ctx.options.headers[1]

\* a header set of the caller holds the field, in any letter case
Sets(headers, name) ==
  /\ headers # <<>>
  /\ \E k \in DOMAIN headers[1] : toLowerCase(k) = toLowerCase(name)

\* the value it holds for the field
ValueIn(headers, name) ==
  headers[1][CHOOSE k \in DOMAIN headers[1] : toLowerCase(k) = toLowerCase(name)]

\* the caller's body is a plain object or an array
ObjectOrArrayBody ==
  /\ input.body # <<>>
  /\ input.body[1].kind \in { "Object", "Array" }

\* the JSON text of the caller's body
JsonTextOfBody ==
  [ typeof |-> "string", kind |-> "String", id |-> input.body[1].id, json |-> TRUE ]

\* the field as the caller set it, per-call headers before the descriptor's
\* before the defaults'; nothing when no layer sets it
CallerSetValue(name) ==
  IF Sets(input.headers, name) THEN << ValueIn(input.headers, name) >>
  ELSE IF Sets(request.headers, name) THEN << ValueIn(request.headers, name) >>
  ELSE IF Sets(defaults.headers, name) THEN << ValueIn(defaults.headers, name) >>
  ELSE <<>>

\* the field is handed to the transport as the caller set it, and as
\* application/json when no layer set it
DefaultedToJson(callerValue, name) ==
  /\ name \in DOMAIN SentHeaders
  /\ SentHeaders[name] = IF callerValue # <<>> THEN callerValue[1] ELSE "application/json"

ResolvedValue(name) ==
  LET top == IF input.headers # <<>> THEN input.headers ELSE request.headers
  IN  IF Sets(top, name) THEN << ValueIn(top, name) >>
      ELSE IF Sets(defaults.headers, name) THEN << ValueIn(defaults.headers, name) >>
      ELSE <<>>

PassThroughBody ==
  /\ input.body # <<>>
  /\ input.body[1].kind \in { "String", "Buffer", "FormData", "URLSearchParams",
                              "ReadableStream", "Readable" }

\* C13: a body that is a string, a binary buffer, a multipart form container,
\* a URL-encoded params container or a stream is handed to the transport as
\* the value the caller passed; for the kinds other than the string, the
\* header set handed to the transport holds a content-type or an accept only
\* if a layer of the caller set it.
C13_BodyPassedThrough ==
  (PassThroughBody /\ Sent) =>
    /\ ctx.options.body = input.body
    /\ input.body[1].kind # "String" =>
         \A name \in { content_type, accept } :
           name \in DOMAIN SentHeaders => CallerSetValue(name) # <<>>

\* a POST with a binary buffer and no headers has been sent
C13_Witness ==
  /\ Sent
  /\ PayloadCall
  /\ input.body = << BufferBody >>
  /\ input.headers = <<>>
  /\ ctx.options.body = << BufferBody >>
  /\ SentHeaders = EmptyMap

\* the options of the first attempt have just been resolved
Resolved == pc = "onRequest" /\ Len(stack) = 0 /\ hookIdx = 0

\* the field names the three header layers of the call hold, in lower case
LayerNames ==
  { toLowerCase(k) :
      k \in (DOMAIN Spread(defaults.headers)) \cup (DOMAIN Spread(request.headers))
               \cup (DOMAIN Spread(input.headers)) }

\* C14 as it is claimed: the resolved header set holds exactly the fields of
\* the instance defaults, of the descriptor and of the per-call headers, each
\* with the value of the last of these three layers that sets it.
C14_Claimed ==
  Resolved =>
    /\ DOMAIN ctx.options.headers[1] = LayerNames
    /\ \A name \in LayerNames :
         << ctx.options.headers[1][name] >> = CallerSetValue(name)

\* the query layers of the call, a later one overriding an earlier one
QueryLayers == << defaults.params, defaults.query, input.params, input.query >>

\* the last layer that holds the key
LastLayerWith(key) ==
  CHOOSE i \in DOMAIN QueryLayers :
    /\ key \in DOMAIN Spread(QueryLayers[i])
    /\ \A j \in DOMAIN QueryLayers :
         key \in DOMAIN Spread(QueryLayers[j]) => j <= i

\* the key-wise union of the layers
MergedQuery ==
  [ key \in UNION { DOMAIN Spread(QueryLayers[i]) : i \in DOMAIN QueryLayers } |->
      QueryLayers[LastLayerWith(key)][1][key] ]

FieldWise(a, b) ==
  IF a = <<>> /\ b = <<>> THEN EmptyMap
  ELSE [ k \in (DOMAIN Spread(a)) \cup (DOMAIN Spread(b)) |->
           IF k \in DOMAIN Spread(b) THEN b[1][k] ELSE a[1][k] ]

\* C16 as it is claimed: create(d) on an instance with the defaults D yields
\* defaults whose headers and whose query hold every field of D that d does
\* not hold and every field of d, with d's value.
C16_Claimed ==
  [][ (creates # <<>> /\ creates' = Tail(creates)) =>
        /\ Spread(defaults'.headers) = FieldWise(defaults.headers, Head(creates).headers)
        /\ Spread(defaults'.query) = FieldWise(defaults.query, Head(creates).query) ]_vars

\* the failure the failing context holds, if any
Failure == ctx.error

\* M: the descriptor's own method, else options.method, else GET
MessageMethod ==
  IF ctx.request.method # <<>> THEN ctx.request.method
  ELSE IF ctx.options.method # <<>> THEN ctx.options.method
  ELSE GET

\* S: the status and the status text of the response, or "<no response>"
MessageStatus ==
  IF ctx.response = <<>> THEN << "<no response>" >>
  ELSE << ToString(ctx.response[1].status), " ", ctx.response[1].statusText >>

\* '[M] "U": S' for a given U
MessageFor(U) ==
  << "[" >> \o MessageMethod \o << "] ", "\"" >> \o U \o << "\"", ": " >>
    \o MessageStatus

\* the message of the error the call has rejected with
RejectionMessage == result.error[1].message

\* C17 as it is claimed: the message is '[M] "U": S' with U the descriptor's
\* URL or string form, followed by a space and the failure's message only
\* when that message is not empty.
C17_Claimed ==
  NormalizedRejection =>
    RejectionMessage =
      MessageFor(String(ctx.request.url))
        \o (IF Failure # <<>> /\ Failure[1].message # <<>>
              THEN << " " >> \o Failure[1].message ELSE <<>>)

\* what follows S: nothing when no failure was caught; else a space and the
\* failure's message, or its string form when it has no message
MessageTail ==
  IF Failure = <<>> THEN <<>>
  ELSE IF Failure[1].message # <<>> THEN << " " >> \o Failure[1].message
  ELSE << " ", Failure[1].name >>

\* U: the descriptor's own URL, else its string form, else "/"
MessageUrl ==
  IF ctx.request.kind = "string" /\ String(ctx.request.url) = <<>>
    THEN << "/" >>
    ELSE String(ctx.request.url)

\* C17: the normalized error's message is '[M] "U": S', followed, when a
\* failure was caught, by a space and the failure's message, or the failure's
\* string form when its message is empty; M is the descriptor's own method,
\* else options.method, else GET; U is the descriptor's own URL, else its
\* string form, or "/" when that is empty; S is "<status> <statusText>" of
\* the response, or "<no response>" when none exists. A POST to U answered
\* 403 Forbidden gives exactly '[POST] "U": 403 Forbidden'.
C17_Message ==
  /\ NormalizedRejection => RejectionMessage = MessageFor(MessageUrl) \o MessageTail
  /\ ( /\ NormalizedRejection
       /\ request = StringRequest(TheUrl)
       /\ defaults = NoOptions
       /\ input.query = <<>> /\ input.params = <<>>
       /\ toUpperCase(input.method) = POST
       /\ ctx.response # <<>>
       /\ ctx.response[1].status = 403 ) =>
       RejectionMessage =
         << "[", "P", "O", "S", "T", "] ", "\"", "http://localhost:3000", "/ok",
            "\"", ": ", "403", " ", "Forbidden" >>

\* a call that passed a Request of method PUT and the option method "post"
\* has rejected on a 403 answer
C17_Witness ==
  /\ NormalizedRejection
  /\ request = RequestObject(TheUrl, <<"p","u","t">>, EmptyMap)
  /\ input.method = <<"p","o","s","t">>
  /\ ctx.response # <<>>
  /\ ctx.response[1].status = 403
  /\ RejectionMessage =
       << "[", "P", "U", "T", "] ", "\"", "http://localhost:3000", "/ok",
          "\"", ": ", "403", " ", "Forbidden" >>

\* the error the call has rejected with
RejectionError == result.error[1]

\* what the response of the failing context holds under the key now, none
\* when the context holds no response
CurrentOfResponse(key) ==
  IF ctx.response = <<>> THEN <<>> ELSE << ctx.response[1][key] >>

FailedContext == lastRetry[1].context

\* every callback the failed attempt held in the slot was invoked once
SlotCompleted(slot) ==
  \A i \in 1..MaxHooks :
    lastRetry[1].hookCalls[slot][i] =
      IF i <= hookCount(FailedContext.options[slot]) THEN 1 ELSE 0

\* the delay the call asks for between a failed attempt and its retry
InputDelay ==
  IF input.retryDelay.isFunction THEN input.retryDelay.returns ELSE input.retryDelay.n

\* C20: within one call at most one attempt is in progress: when the
\* onRequest hooks of a retry attempt start, and until its transport
\* invocation is made, the transport invocation of the attempt before has
\* failed or returned, every onRequestError hook (after a failure) or every
\* onResponse and onResponseError hook (after a response) of that attempt has
\* completed, its retry delay, when there is one, has elapsed, and the
\* transport has been invoked once per attempt before.
C20_AttemptsAreSequential ==
  /\ pc \notin { "idle", "done" } => fetchCount \in { Len(stack), Len(stack) + 1 }
  /\ (RetryDecided /\ pc = "onRequest") =>
       /\ fetchCount = Len(stack)
       /\ (FailedContext.error # <<>>) # (FailedContext.response # <<>>)
       /\ FailedContext.error # <<>> => SlotCompleted("onRequestError")
       /\ FailedContext.response # <<>> =>
            SlotCompleted("onResponse") /\ SlotCompleted("onResponseError")
       /\ InputDelay > 0 => lastRetry[1].waited

\* the retry of a call with two callbacks in every slot and a retry delay is
\* running its onRequest hooks, after a response of status 500
C20_Witness ==
  /\ RetryDecided
  /\ pc = "onRequest"
  /\ hookIdx = 1
  /\ FailedContext.response # <<>>
  /\ hookCount(input.onResponseError) = MaxHooks
  /\ lastRetry[1].waited

(***************************************************************************)
(* Two calls on a clock.  Both are made at time 0 through one instance,    *)
(* with the same options but for their retryDelay; every transport         *)
(* invocation of either takes the same time and ends the same way, and a   *)
(* setTimeout callback runs when its delay has passed.  The calls hold no  *)
(* hooks and no timeout, so that an attempt is its transport invocation    *)
(* and onError's decision.                                                 *)
(***************************************************************************)
\* how every transport invocation of the two calls ends
RaceOutcomes ==
  { [ response |-> <<>>, error |-> << NetworkError >> ] }
    \cup { [ response |-> << Response(st, TRUE, <<>>) >>, error |-> <<>> ] :
             st \in { 404, 408, 500 } }

RaceDelays ==
  { DelayNumber(n) : n \in 0..MaxDelay } \cup { DelayFunction(n) : n \in 1..MaxDelay }

\* what a raced call sends: nothing, or a JSON body with a query and headers
\* under a method given in lower case
RaceShapes ==
  { NoOptions,
    [ NoOptions EXCEPT !.method = <<"p","o","s","t">>, !.body = << PlainObject >>,
                       !.query = << "a" :> 1 >>, !.headers = << HeadersB >> ] }

\* the option sets of two calls: those that differ in their retryDelay alone,
\* and those of one budget that differ in what they send
RaceInputs ==
  { [ i \in 1..2 |-> [ NoOptions EXCEPT !.retry = r, !.retryDelay = d[i] ] ] :
      r \in { RetryUndefined } \cup { RetryNumber(n) : n \in 0..MaxRetry },
      d \in [ 1..2 -> RaceDelays ] }
    \cup { [ i \in 1..2 |-> [ shape[i] EXCEPT !.retry = RetryNumber(1),
                                               !.retryDelay = DelayNumber(i - 1) ] ] :
             shape \in [ 1..2 -> RaceShapes ] }

\* the defaults of the instance the two calls are made through
RaceDefaults == { NoOptions, DefaultsA }

InitRace ==
  /\ defaults \in RaceDefaults
  /\ creates = <<>>
  /\ request = StringRequest(TheUrl)
  /\ input = NoOptions
  /\ pc = "idle"
  /\ ctx = NoContext
  /\ hookIdx = 0
  /\ abortTimeout = 0
  /\ retries = 0
  /\ stack = <<>>
  /\ timers = {}
  /\ aborted = [ s \in Signals |-> <<>> ]
  /\ result = Pending
  /\ fetchCount = 0
  /\ hookCalls = NoHookCalls
  /\ dataWrites = 0
  /\ parseCalls = 0
  /\ lastRetry = <<>>
  /\ hookFailed = FALSE
  /\ \E inputs \in RaceInputs, latency \in 1..MaxLatency, outcome \in RaceOutcomes :
       race = [ now |-> 0, latency |-> latency, outcome |-> outcome,
                created |-> defaults,
                calls |-> [ i \in 1..2 |-> Uncalled(inputs[i]) ], settled |-> <<>> ]

\* $fetchRaw(_request, _options) of a raced call: the context is created
\* and, with no hook to run, the transport is invoked at once
raceFetchRaw(call, _request, _options) ==
  LET context == prepareBody(assembleUrl(newContext(_request, _options)))
  IN  [ call EXCEPT !.pc = "fetch",
                    !.ctx = context,
                    !.input = IF call.sent = <<>>
                                THEN inputAfter(@, context.options) ELSE @,
                    !.due = race.now + race.latency,
                    !.sent = Append(@, race.now) ]

\* the defaults of the instance after a step of a raced call: written, if
\* at all, when the step has entered $fetchRaw
raceDefaults(before, after) ==
  IF Len(after.sent) > Len(before.sent)
    THEN defaultsAfter(defaults, after.ctx.options)
    ELSE defaults

\* onError(context) of a raced call whose attempt has just failed
raceOnError(call, failed) ==
  IF shouldRetry(failed)
    THEN IF awaitsDelay(failed)
           THEN [ call EXCEPT !.pc = "retryDelay", !.ctx = failed,
                              !.due = race.now + retryDelayOf(failed) ]
           ELSE raceFetchRaw([ call EXCEPT !.ctx = failed ], failed.request,
                             retryOptions(failed, retriesOf(failed)))
    ELSE [ call EXCEPT !.pc = "done", !.ctx = failed, !.settledAt = race.now ]

\* the caller makes one of the two calls
RaceCall ==
  \E i \in 1..2 :
    /\ race.calls[i].pc = "idle"
    /\ race' = [ race EXCEPT !.calls[i] = raceFetchRaw(@, request, @.input) ]
    /\ defaults' = raceDefaults(race.calls[i], race'.calls[i])
    /\ UNCHANGED attemptVars

\* a transport invocation ends, its time having passed: the context takes the
\* response or the error, and onError decides
RaceTransportEnds ==
  \E i \in 1..2 :
    LET call == race.calls[i]
        failed == [ call.ctx EXCEPT !.response = race.outcome.response,
                                    !.error = race.outcome.error ]
        after == raceOnError([ call EXCEPT !.failed = Append(@, race.now) ], failed)
    IN  /\ call.pc = "fetch"
        /\ race.now = call.due
        /\ race' = [ race EXCEPT !.calls[i] = after,
                                 !.settled = IF after.pc = "done" THEN Append(@, i) ELSE @ ]
        /\ defaults' = raceDefaults(call, after)
        /\ UNCHANGED attemptVars

\* the retry delay of a call has passed: $fetchRaw is called again
RaceDelayElapses ==
  \E i \in 1..2 :
    LET call == race.calls[i]
    IN  /\ call.pc = "retryDelay"
        /\ race.now = call.due
        /\ race' = [ race EXCEPT !.calls[i] =
                       raceFetchRaw(call, call.ctx.request,
                                    retryOptions(call.ctx, retriesOf(call.ctx))) ]
        /\ defaults' = raceDefaults(call, race'.calls[i])
        /\ UNCHANGED attemptVars

\* a time unit passes: both calls were made, one is not settled, and nothing
\* is due now
RaceTick ==
  /\ \A i \in 1..2 : race.calls[i].pc # "idle"
  /\ \E i \in 1..2 : race.calls[i].pc # "done"
  /\ \A i \in 1..2 :
       race.calls[i].pc \in { "fetch", "retryDelay" } => race.now < race.calls[i].due
  /\ race' = [ race EXCEPT !.now = @ + 1 ]
  /\ UNCHANGED callVars

NextRace ==
  \/ RaceCall
  \/ RaceTransportEnds
  \/ RaceDelayElapses
  \/ RaceTick

SpecRace == InitRace /\ [][NextRace]_vars

\* the delay a raced call asks for
RaceDelay(i) ==
  IF race.calls[i].input.retryDelay.isFunction
    THEN race.calls[i].input.retryDelay.returns
    ELSE race.calls[i].input.retryDelay.n

\* the raced call has retried
Retried(i) == Len(race.calls[i].sent) > 1

\* C19: a retry with a retryDelay N > 0, given as a number or as a function
\* returning N, is not sent to the transport before N time units have passed
\* since the attempt before it failed, so that a call that has retried is
\* not settled before then; of two calls made together through one instance
\* that fail alike with the same budget and retry, the one with the smaller
\* delay settles first.
C19_RetryWaitsForDelay ==
  /\ \A i \in 1..2 :
       LET call == race.calls[i]
       IN  RaceDelay(i) > 0 =>
             /\ Len(call.failed) \in { Len(call.sent) - 1, Len(call.sent) }
             /\ \A k \in 1..(Len(call.sent) - 1) :
                  call.sent[k + 1] >= call.failed[k] + RaceDelay(i)
             /\ (call.pc = "retryDelay" /\ race.now < call.due) =>
                  Len(call.failed) = Len(call.sent)
             /\ (call.pc = "done" /\ Retried(i)) =>
                  call.settledAt >= call.failed[1] + RaceDelay(i)
  /\ \A i, j \in 1..2 :
       ( /\ RaceDelay(i) < RaceDelay(j)
         /\ race.calls[j].pc = "done"
         /\ Retried(j) ) =>
         /\ race.calls[i].pc = "done"
         /\ Retried(i)
         /\ race.calls[i].settledAt < race.calls[j].settledAt
         /\ race.settled = << i, j >>

\* the race of the test "retry with callback delay": two calls of budget 2
\* answered 408 each time, the first made with the longer delay, have both
\* settled, the second before the first
C19_Witness ==
  /\ race.outcome.response # <<>>
  /\ race.outcome.response[1].status = 408
  /\ race.calls[1].input.retry = RetryNumber(2)
  /\ race.calls[1].input.retryDelay = DelayFunction(2)
  /\ race.calls[2].input.retryDelay = DelayFunction(1)
  /\ race.settled = << 2, 1 >>
  /\ Len(race.calls[1].sent) = 3
  /\ race.calls[1].settledAt = 3 * race.latency + 4
  /\ race.calls[2].settledAt = 3 * race.latency + 2

\* C21 as it is claimed: whenever the call has rejected, by whatever failure,
\* the rejection is a normalized error whose request and options are those
\* of the failing attempt.
C21_Claimed ==
  (pc = "done" /\ result.state = "rejected") =>
    /\ result.error[1].name = "FetchError"
    /\ error_request(result.error[1]) = ctx.request
    /\ error_options(result.error[1]) = ctx.options

(***************************************************************************)
(* The call under steps that all terminate: a hook that was invoked        *)
(* returns or throws, the transport answers or throws, the body read ends, *)
(* the retry delay elapses.  Nothing is asked of the timer nor of the      *)
(* caller's abort.                                                         *)
(***************************************************************************)
\* the calls followed to their end: with and without a retry budget, a retry
\* delay, a timeout, a signal of the caller, hooks, and defaults of the
\* instance
FairCalls ==
  { << <<>>, StringRequest(TheUrl), i >> :
      i \in DelayInputs \cup SequenceInputs
             \cup { [ NoOptions EXCEPT !.retry = r, !.timeout = t, !.signal = s ] :
                      r \in { RetryFalse, RetryNumber(MaxRetry) }, t \in {0, 1},
                      s \in { NoSignal, CallerSignal } } }
    \cup { << << DefaultsA >>, StringRequest(TheUrl), NoOptions >> }

\* the server of these calls names no content type
PlainResponses == { r \in Responses : r.contentType = <<>> }

TransportRespondsPlainly ==
  /\ pc = "fetch"
  /\ ~ signalAborted
  /\ \E r \in PlainResponses : returns(r)

NextFair ==
  \/ create
  \/ Call
  \/ HookReturns
  \/ HookThrows
  \/ SendRequest
  \/ TransportRespondsPlainly
  \/ TransportFails
  \/ TransportAborted
  \/ TimerFires
  \/ CallerAborts
  \/ Decode
  \/ DecodeThrows
  \/ StatusCheck
  \/ OnError
  \/ RetryDelayElapses

FairSteps ==
  /\ WF_vars(HookReturns \/ HookThrows)
  /\ WF_vars(SendRequest)
  /\ WF_vars(TransportRespondsPlainly \/ TransportFails \/ TransportAborted)
  /\ WF_vars(Decode \/ DecodeThrows)
  /\ WF_vars(StatusCheck)
  /\ WF_vars(OnError)
  /\ WF_vars(RetryDelayElapses)

SpecFair == InitWith(FairCalls) /\ [][NextFair]_vars /\ FairSteps

\* the attempt the call ended with has failed: the transport threw, or the
\* response has an error status that the caller did not ask to ignore
LastAttemptFailed ==
  \/ ctx.error # <<>>
  \/ ctx.response = <<>>
  \/ /\ ~ input.ignoreResponseError
     /\ ctx.response[1].status \in 400..599

\* C22: when every transport invocation, hook, body read and retry delay
\* terminates, a call that was made ends: it resolves with a response or it
\* rejects with an error; and it never resolves when its last attempt has
\* failed.
C22_CallSettles ==
  /\ (pc \notin { "idle", "done" }) ~>
       (pc = "done" /\ result.state \in { "fulfilled", "rejected" })
  /\ []( (pc = "done" /\ result.state = "fulfilled") => ~ LastAttemptFailed )
  /\ []( (pc = "done" /\ result.state = "rejected") => result.error # <<>> )

\* a call with the largest explicit budget has rejected after it used all of
\* it, every attempt answered by an error status
C22_Witness ==
  /\ NormalizedRejection
  /\ input.retry = RetryNumber(MaxRetry)
  /\ fetchCount = MaxRetry + 1
  /\ ctx.response # <<>>
  /\ ctx.options.retry = RetryNumber(0)

(***************************************************************************)
(* detectResponseType on its own: one call without a responseType and      *)
(* without parseResponse, answered 200 with a body under every content     *)
(* type of a list, so that the strategy of the decode step is the          *)
(* classification of the content type.                                     *)
(***************************************************************************)
\* media types, well and badly formed, in several letter cases
DetectEssences ==
  { <<"a","p","p","l","i","c","a","t","i","o","n","/","j","s","o","n">>,
    <<"A","P","P","L","I","C","A","T","I","O","N","/","J","S","O","N">>,
    <<"A","p","p","l","i","c","a","t","i","o","n","/","J","s","o","n">>,
    <<"a","p","p","l","i","c","a","t","i","o","n","/","v","n","d",".","a","p","i","+","j","s","o","n">>,
    <<"a","p","p","l","i","c","a","t","i","o","n","/","l","d","+","j","s","o","n">>,
    <<"a","p","p","l","i","c","a","t","i","o","n","/","+","j","s","o","n">>,
    <<"a","p","p","l","i","c","a","t","i","o","n","/","a"," ","b","+","j","s","o","n">>,
    <<"a","p","p","l","i","c","a","t","i","o","n","/","j","s","o","n","x">>,
    <<"x","a","p","p","l","i","c","a","t","i","o","n","/","j","s","o","n">>,
    <<"a","p","p","l","i","c","a","t","i","o","n","/","x","-","j","s","o","n">>,
    <<"a","p","p","l","i","c","a","t","i","o","n","/","j","s","o","n","+","x">>,
    <<"j","s","o","n">>,
    <<"t","e","x","t","/","p","l","a","i","n">>,
    <<"t","e","x","t","/","h","t","m","l">>,
    <<"T","E","X","T","/","P","L","A","I","N">>,
    <<"t","e","x","t","/">>,
    <<"t","e","x","t">>,
    <<"i","m","a","g","e","/","s","v","g">>,
    <<"i","m","a","g","e","/","s","v","g","+","x","m","l">>,
    <<"I","m","a","g","e","/","S","v","g">>,
    <<"a","p","p","l","i","c","a","t","i","o","n","/","x","m","l">>,
    <<"a","p","p","l","i","c","a","t","i","o","n","/","x","h","t","m","l">>,
    <<"a","p","p","l","i","c","a","t","i","o","n","/","h","t","m","l">>,
    <<"a","p","p","l","i","c","a","t","i","o","n","/","x","h","t","m","l","+","x","m","l">>,
    <<"i","m","a","g","e","/","p","n","g">>,
    <<"a","p","p","l","i","c","a","t","i","o","n","/","o","c","t","e","t","-","s","t","r","e","a","m">>,
    <<>> }

\* what follows the media type in the header
DetectParameters ==
  { <<>>,
    <<";","c","h","a","r","s","e","t","=","u","t","f","-","8">>,
    <<";"," ","c","h","a","r","s","e","t","=","u","t","f","-","8">>,
    <<";">>,
    <<";","a",";","b">> }

DetectContentTypes == { e \o p : e \in DetectEssences, p \in DetectParameters }

DetectCalls ==
  { << <<>>, StringRequest(TheUrl), [ NoOptions EXCEPT !.retry = RetryNumber(0) ] >> }

\* the transport answers 200 with a body and one of the content types
TransportRespondsTyped ==
  /\ pc = "fetch"
  /\ ~ signalAborted
  /\ \E ct \in DetectContentTypes : returns(Response(200, TRUE, ct))

NextDetect ==
  \/ Call
  \/ SendRequest
  \/ TransportRespondsTyped
  \/ TransportFails
  \/ Decode
  \/ DecodeThrows
  \/ StatusCheck
  \/ OnError

SpecDetect == InitWith(DetectCalls) /\ [][NextDetect]_vars

\* the text in front of the first ";" of a header value
MediaType(s) ==
  IF \A i \in DOMAIN s : s[i] # ";" THEN s
  ELSE SubSeq(s, 1, (CHOOSE i \in DOMAIN s :
                       s[i] = ";" /\ \A j \in 1..(i - 1) : s[j] # ";") - 1)

\* the text ends with the suffix
EndsWith(s, suffix) ==
  /\ Len(s) >= Len(suffix)
  /\ SubSeq(s, Len(s) - Len(suffix) + 1, Len(s)) = suffix

\* a character a vendor name is written with
VendorChar(c) ==
  c \in Range(LowerLetters) \cup Range(UpperLetters) \cup Digits
         \cup {"_","!","#","$","%","&","*",".","^","~","-"}

\* application/json or application/<vendor>+json, in any letter case
IsJsonMediaType(t) ==
  LET lower == toLowerCase(t)
      application == <<"a","p","p","l","i","c","a","t","i","o","n","/">>
  IN  \/ lower = application \o <<"j","s","o","n">>
      \/ /\ startsWith(lower, application)
         /\ EndsWith(lower, <<"+","j","s","o","n">>)
         /\ Len(lower) >= Len(application) + 5
         /\ \A i \in (Len(application) + 1)..(Len(lower) - 5) : VendorChar(lower[i])

\* one of the four text types, or a type that starts with "text/"
IsTextMediaType(t) ==
  \/ t \in { <<"i","m","a","g","e","/","s","v","g">>,
             <<"a","p","p","l","i","c","a","t","i","o","n","/","x","m","l">>,
             <<"a","p","p","l","i","c","a","t","i","o","n","/","x","h","t","m","l">>,
             <<"a","p","p","l","i","c","a","t","i","o","n","/","h","t","m","l">> }
  \/ startsWith(t, <<"t","e","x","t","/">>)

\* the class the claim gives a content type
ClaimedType(contentType) ==
  IF contentType = <<>> THEN "json"
  ELSE IF IsJsonMediaType(MediaType(contentType)) THEN "json"
  ELSE IF IsTextMediaType(MediaType(contentType)) THEN "text"
  ELSE "blob"

\* the strategy the decode step has used, read off what it stored
UsedType ==
  IF ctx.response[1]._data = "destr(text)" THEN "json" ELSE ctx.response[1]._data

\* the response was decoded under the content type
DecodedUnder(contentType) ==
  /\ ctx.response # <<>>
  /\ dataWrites = 1
  /\ ctx.response[1].contentType = contentType

\* C23: detectResponseType gives "json" for the empty content type;
\* otherwise, of the text in front of the first ";", "json" when it is
\* application/json or application/<vendor>+json in any letter case, "text"
\* when it is image/svg, application/xml, application/xhtml, application/html
\* or starts with "text/", and "blob" for everything else; it gives nothing
\* but json, text and blob.
C23_DetectResponseType ==
  /\ \A ct \in DetectContentTypes :
       /\ detectResponseType(ct) = ClaimedType(ct)
       /\ detectResponseType(ct) \in { "json", "text", "blob" }
  /\ (ctx.response # <<>> /\ dataWrites = 1) =>
       UsedType = ClaimedType(ctx.response[1].contentType)
  /\ DecodedUnder(<<"a","p","p","l","i","c","a","t","i","o","n","/","v","n","d",".","a","p","i","+","j","s","o","n",";"," ","c","h","a","r","s","e","t","=","u","t","f","-","8">>) => UsedType = "json"
  /\ DecodedUnder(<<"A","P","P","L","I","C","A","T","I","O","N","/","J","S","O","N">>) => UsedType = "json"
  /\ DecodedUnder(<<"a","p","p","l","i","c","a","t","i","o","n","/","x","m","l",";","c","h","a","r","s","e","t","=","u","t","f","-","8">>) => UsedType = "text"
  /\ DecodedUnder(<<"t","e","x","t","/","h","t","m","l",";"," ","c","h","a","r","s","e","t","=","u","t","f","-","8">>) => UsedType = "text"
  /\ DecodedUnder(<<"T","E","X","T","/","P","L","A","I","N">>) => UsedType = "blob"
  /\ DecodedUnder(<<"i","m","a","g","e","/","s","v","g","+","x","m","l">>) => UsedType = "blob"
  /\ DecodedUnder(<<"i","m","a","g","e","/","p","n","g">>) => UsedType = "blob"
  /\ DecodedUnder(<<";","c","h","a","r","s","e","t","=","u","t","f","-","8">>) => UsedType = "blob"

\* a response of type application/xml with a charset parameter has been
\* decoded as text
C23_Witness ==
  /\ pc = "done"
  /\ result.state = "fulfilled"
  /\ DecodedUnder(<<"a","p","p","l","i","c","a","t","i","o","n","/","x","m","l",";","c","h","a","r","s","e","t","=","u","t","f","-","8">>)
  /\ ctx.response[1]._data = "text"

\* what the transport is handed when $fetchRaw(_request, _options) is
\* entered on an instance of the given defaults, no hook being held
Handed(_request, _options, dflt) ==
  prepareBody(assembleUrl(newContextOf(_request, _options, dflt)))

\* the context a call ends with when it runs alone on an instance of the
\* given defaults and every transport invocation ends in the given way
RECURSIVE AloneFrom(_, _, _)
AloneFrom(handed, dflt, outcome) ==
  LET failed == [ handed EXCEPT !.response = outcome.response,
                                !.error = outcome.error ]
  IN  IF shouldRetry(failed)
        THEN AloneFrom(Handed(failed.request, retryOptions(failed, retriesOf(failed)),
                              dflt),
                       dflt, outcome)
        ELSE failed

AloneOutcome(i) ==
  AloneFrom(Handed(request, race.calls[i].input, race.created), race.created,
            race.outcome)

C25_Claimed ==
  /\ (Sent /\ request.kind = "string") =>
       /\ ctx.options.query = <<>>
       /\ ctx.options.params = <<>>
  /\ (Sent /\ request.kind = "string" /\ defaults = NoOptions /\ input = NoOptions) =>
       /\ ctx.options.headers # <<>>
       /\ ctx.options = [ NoOptions EXCEPT !.headers = ctx.options.headers ]

\* C25: for a string descriptor the options handed to the transport hold no
\* query and no params, in the first attempt and in every retry; with no
\* instance defaults and an empty per-call option set, the first attempt
\* hands over the headers field and nothing else, and a retry hands over the
\* headers field and the retry field holding the remaining budget.
C25_NoQueryInOptions ==
  /\ (Sent /\ request.kind = "string") =>
       /\ ctx.options.query = <<>>
       /\ ctx.options.params = <<>>
  /\ (Sent /\ request.kind = "string" /\ defaults = NoOptions /\ input = NoOptions) =>
       /\ ctx.options.headers # <<>>
       /\ ctx.options =
            [ NoOptions EXCEPT !.headers = ctx.options.headers,
                               !.retry = IF fetchCount = 1
                                           THEN RetryUndefined
                                           ELSE RetryNumber(0) ]

\* the retry of a call with the empty option set, through an instance without
\* defaults, has been handed to the transport
C25_Witness ==
  /\ pc = "fetch"
  /\ fetchCount = 2
  /\ request.kind = "string"
  /\ defaults = NoOptions
  /\ input = NoOptions
  /\ ctx.options.retry = RetryNumber(0)
  /\ ctx.options.query = <<>>
  /\ ctx.options.params = <<>>

\* C26 as claimed: every attempt is cancellable on its own: the signal a retry
\* hands to the transport is not the timeout signal that an earlier attempt
\* installed, and a retry never starts with a timeout signal that has already
\* been aborted.
C26_Claimed ==
  [][ (pc = "onRequest" /\ pc' = "fetch" /\ Len(stack) >= 1
         /\ ctx'.options.signal.src = "internal") =>
        /\ ctx'.options.signal.id > Len(stack)
        /\ aborted'[ctx'.options.signal] = <<>> ]_vars

\* C27 as claimed: with a timeout and no signal of the caller, while the
\* transport invocation of any attempt is pending a timeout abort of the
\* signal handed to it is scheduled (or has fired already), in the first
\* attempt and in every retry, so that an attempt whose transport never
\* responds ends up aborted with the timeout reason.
C27_Claimed ==
  (pc = "fetch" /\ input.timeout > 0 /\ input.signal = NoSignal
     /\ defaults.signal = NoSignal) =>
    /\ ctx.options.signal.src = "internal"
    /\ \/ ctx.options.signal.id \in timers
       \/ aborted[ctx.options.signal] = << TimeoutError >>

\* the URL the first attempt of the call hands to the transport
FirstUrl == assembleUrl(newContext(request, input)).request.url

\* C28 as claimed: for a string descriptor every attempt hands the URL of the
\* first attempt to the transport (the base applied once, the query holding
\* the merged map in which the values of the call win over the defaults), and
\* the request of the error of a rejected call is that URL.
C28_Claimed ==
  /\ (Sent /\ request.kind = "string") => ctx.request.url = FirstUrl
  /\ (pc = "done" /\ result.state = "rejected" /\ request.kind = "string"
        /\ result.error[1].name = "FetchError") =>
       error_request(result.error[1]).url = FirstUrl

\* C29 as claimed: when the attempt armed its timeout, the timeout keeps
\* racing after the transport has returned: while the body is being read the
\* timer is still scheduled (or has fired), so a read that never completes
\* ends aborted with the timeout reason.
C29_Claimed ==
  (pc = "decode" /\ abortTimeout # 0) =>
    \/ abortTimeout \in timers
    \/ aborted[InternalSignal(abortTimeout)] = << TimeoutError >>

\* C30 as claimed: when the caller supplied the signal and the transport
\* failed with the cancellation error of that signal, the attempt is not
\* retried, also when a timeout is configured and the budget is positive.
C30_Claimed ==
  [][ (pc = "onRequestError" /\ ctx.options.signal = CallerSignal
         /\ ctx.error = << AbortError >>) =>
        pc' \notin { "retryDelay", "onRequest" } ]_vars

\* the steps from one phase of an attempt to the next
PhaseSteps ==
  { << "idle", "onRequest" >>, << "onRequest", "fetch" >>,
    << "fetch", "onRequestError" >>, << "fetch", "decode" >>,
    << "decode", "onResponse" >>, << "onResponse", "onResponseError" >>,
    << "onRequestError", "retryDelay" >>, << "onRequestError", "onRequest" >>,
    << "onResponseError", "retryDelay" >>, << "onResponseError", "onRequest" >>,
    << "retryDelay", "onRequest" >> }

\* the step invokes the i-th hook of the slot
HookInvoked(slot, i) == hookCalls'[slot][i] = hookCalls[slot][i] + 1

\* C31: the phases of an attempt follow in a fixed order: the onRequest hooks
\* in list order, then URL assembly, body preparation, timeout arming and the
\* transport invocation, then the onRequestError hooks when the transport
\* threw, or decoding, the onResponse hooks and, for an error status, the
\* onResponseError hooks.  The transport is not invoked before every onRequest
\* hook has been invoked, and no onResponseError hook before every onResponse
\* hook.
C31_PhaseOrder ==
  [][ /\ (pc' # pc /\ pc' # "done") => << pc, pc' >> \in PhaseSteps
      /\ \A slot \in HookSlots : \A i \in 1..MaxHooks :
           HookInvoked(slot, i) =>
             /\ pc = slot
             /\ \A j \in 1..MaxHooks : hookCalls[slot][j] = IF j < i THEN 1 ELSE 0
      /\ fetchCount' # fetchCount =>
           /\ pc = "onRequest" /\ pc' = "fetch"
           /\ InvokedOnce("onRequest")
           /\ ctx'.request = prepareBody(assembleUrl(ctx)).request
           /\ armsTimeout(prepareBody(assembleUrl(ctx))) => abortTimeout' \in timers'
      /\ (pc = "fetch" /\ pc' = "onRequestError") =>
           ctx'.error # <<>> /\ ctx'.response = <<>>
      /\ (pc = "fetch" /\ pc' = "decode") => ctx'.response # <<>>
      /\ (pc = "onResponse" /\ pc' = "onResponseError") =>
           InvokedOnce("onResponse") /\ ErrorStatus(ctx)
      /\ (\E i \in 1..MaxHooks : HookInvoked("onResponseError", i)) =>
           InvokedOnce("onResponse") /\ InvokedOnce("onRequest")
    ]_vars

\* an attempt with lists of MaxHooks hooks has run its onRequest, onResponse
\* and onResponseError hooks after an error status
C31_Witness ==
  /\ MaxHooks >= 2
  /\ pc = "onResponseError"
  /\ hookIdx = MaxHooks
  /\ \A slot \in HookSlots : input[slot] = HookList(MaxHooks)
  /\ InvokedOnce("onRequest")
  /\ InvokedOnce("onResponse")
  /\ InvokedOnce("onResponseError")
  /\ NotInvoked("onRequestError")

\* the body read of the last attempt threw
DecodeFailed == pc = "done" /\ result = [ state |-> "rejected", error |-> << BodyError >> ]

\* C32 as claimed: in every attempt in which the transport returned a
\* response the onResponse hooks are run, whatever the status, with no
\* condition other than the existence of the response.
C32_Claimed ==
  (pc \in { "onResponseError", "retryDelay", "done" } /\ ctx.response # <<>>) =>
    InvokedOnce("onResponse") \/ hookFailed

\* C32: in every attempt in which the transport returned a response and the
\* body read did not throw, the onResponse hooks are run before the status
\* check, whatever the status, ignoreResponseError and the presence of a body;
\* when the body read throws the call rejects with no onResponse hook run.
C32_OnResponseRuns ==
  /\ (pc \in { "onResponseError", "retryDelay", "done" } /\ ctx.response # <<>>
        /\ ~ DecodeFailed) =>
       InvokedOnce("onResponse") \/ hookFailed
  /\ (pc \in { "onResponseError", "retryDelay" } /\ ctx.response # <<>>) =>
       InvokedOnce("onResponse")
  /\ DecodeFailed => ctx.response # <<>> /\ NotInvoked("onResponse")

\* the body read of a response threw in a call with MaxHooks onResponse hooks
C32_Witness ==
  /\ DecodeFailed
  /\ input.onResponse = HookList(MaxHooks)
  /\ MaxHooks >= 1
  /\ ctx.response # <<>>
  /\ NotInvoked("onResponse")
  /\ InvokedOnce("onRequest")

\* onError decides about the attempt that the internal timeout aborted
TimeoutHandled ==
  /\ pc = "onRequestError"
  /\ hookIdx = hookCount(ctx.options.onRequestError)
  /\ ctx.error = << TimeoutError >>
  /\ pc' # pc

\* the budget left to the failed attempt is positive and 500 is a retry status
TimeoutRetriable ==
  /\ ctx.options.retry # RetryFalse
  /\ retriesOf(ctx) > 0
  /\ IF ctx.options.retryStatusCodes.isArray
       THEN 500 \in ctx.options.retryStatusCodes.codes
       ELSE 500 \in retryStatusCodes

\* C33: an attempt that failed because the internal timeout fired is not
\* taken for a cancellation: with a positive budget and 500 among the retry
\* statuses $fetchRaw is invoked again (after the delay, when there is one),
\* and otherwise the call rejects with a FetchError whose cause is the timeout
\* reason.
C33_TimeoutIsRetried ==
  [][ TimeoutHandled =>
        IF TimeoutRetriable
          THEN /\ pc' \in { "retryDelay", "onRequest" }
               /\ retries' = retriesOf(ctx)
               /\ result' = Pending
               /\ pc' = "onRequest" => ctx'.options.retry = RetryNumber(retriesOf(ctx) - 1)
          ELSE /\ pc' = "done"
               /\ result'.state = "rejected"
               /\ result'.error[1].name = "FetchError"
               /\ result'.error[1].cause = << TimeoutError >> ]_vars

\* the call has rejected with the timeout reason after its retry timed out
C33_Witness ==
  /\ NormalizedRejection
  /\ result.error[1].cause = << TimeoutError >>
  /\ input.timeout > 0
  /\ input.retry = RetryNumber(1)
  /\ fetchCount = 2
  /\ ctx.options.retry = RetryNumber(0)

\* C34: when the caller supplies a signal no internal timeout is armed, also
\* with a timeout configured: in every attempt the transport receives the
\* caller's signal, no timer is ever scheduled, no internal signal is ever
\* aborted, and an attempt ends aborted only through the caller's signal.
C34_CallerSignalOnly ==
  input.signal = CallerSignal =>
    /\ timers = {}
    /\ abortTimeout = 0
    /\ \A k \in 1..MaxAttempts : aborted[InternalSignal(k)] = <<>>
    /\ Sent => ctx.options.signal = CallerSignal
    /\ (ctx.error # <<>> /\ ctx.error[1].name \in { "AbortError", "TimeoutError" }) =>
         /\ aborted[CallerSignal] = << AbortError >>
         /\ ctx.error = << AbortError >>

\* the retry of a call with the caller's signal and a timeout is pending at
\* the transport
C34_Witness ==
  /\ input.signal = CallerSignal
  /\ input.timeout > 0
  /\ pc = "fetch"
  /\ fetchCount = 2
  /\ ctx.options.signal = CallerSignal
  /\ timers = {}

\* the message of the rejection holds the words of a missing response
SaysNoResponse ==
  \E i \in DOMAIN RejectionMessage : RejectionMessage[i] = "<no response>"

\* C35: the context of an attempt holds at most one of response and error:
\* the error is set only by the step in which the transport threw and the
\* response only by the step in which it returned.  So a normalized error has
\* a cause exactly when it has no response, and exactly then its message holds
\* the words of a missing response.
C35_ResponseOrError ==
  /\ [](ctx.response = <<>> \/ ctx.error = <<>>)
  /\ [][ /\ (ctx.error = <<>> /\ ctx'.error # <<>>) =>
              /\ pc = "fetch" /\ pc' = "onRequestError"
              /\ ctx'.response = <<>>
         /\ (ctx.response = <<>> /\ ctx'.response # <<>>) =>
              /\ pc = "fetch" /\ pc' = "decode"
              /\ ctx'.error = <<>> ]_vars
  /\ [](NormalizedRejection =>
          /\ result.error[1].cause # <<>> <=> error_response(result.error[1]) = <<>>
          /\ SaysNoResponse <=> error_response(result.error[1]) = <<>>
          /\ result.error[1].cause = ctx.error)

\* a call has rejected after the transport failed in its retry as well
C35_Witness ==
  /\ NormalizedRejection
  /\ result.error[1].cause = << NetworkError >>
  /\ error_response(result.error[1]) = <<>>
  /\ SaysNoResponse
  /\ fetchCount = 2

\* the descriptor is a request object with a payload method, and neither the
\* call nor the instance sets a method or a retry budget
DescriptorPayloadOnly ==
  /\ request.kind = "Request"
  /\ request.method \in payloadMethods
  /\ input.method = <<>> /\ defaults.method = <<>>
  /\ input.retry = RetryUndefined /\ defaults.retry = RetryUndefined

====
